---- MODULE Spec2Model ----
(***************************************************************************)
(* Audit pipeline of DeFi-risk-auditor: the Job / Audit orchestration of   *)
(* app/tasks/audit_tasks.py (run_audit), the ABI cache store of            *)
(* app/services/abi_service.py (save_abi, get_cached_abi, get_or_fetch_abi)*)
(* the enqueueing route of app/routes/audit_routes.py (start), the ABI     *)
(* resolution order of app/services/blockchain_service.py (_resolve_abi)   *)
(* and app/routes/blockchain_routes.py (call_contract), the send route and *)
(* its task app/tasks/blockchain_tasks.py (send_and_wait), and the scorer  *)
(* of app/services/ai_service.py (risk_score).                             *)
(*                                                                         *)
(* The persistence layer is a row store under READ COMMITTED: every        *)
(* db.session.commit() is one atomic step, every query reads the rows      *)
(* committed so far.  A worker's position in run_audit is wk[w].pc; the    *)
(* steps are cut at the commits and at the queries that other workers can  *)
(* interleave with.  The request the web layer has in hand, and the last   *)
(* response it gave, are in web; the transactions broadcast to the chain   *)
(* are in txs.                                                             *)
(***************************************************************************)
EXTENDS Integers, Sequences, FiniteSets, TLC

VARIABLES jobs, audits, abis, queue, wk, clock, last, web, txs

vars == <<jobs, audits, abis, queue, wk, clock, last, web, txs>>

----------------------------------------------------------------------------
(* Bounds of the model *)

\* jobs the web layer creates, deliveries the queue makes (over all messages,
\* so a message can be redelivered), workers of the pool, ticks of the clock,
\* resolutions made one after the other
MaxJobs == 2
MaxDeliveries == 2
NumWorkers == 2
MaxClock == 4
MaxCalls == 2

Workers == 1..NumWorkers

----------------------------------------------------------------------------
(* Nullable columns: Null is SQL NULL / Python None, Some(v) a value *)

Null == <<>>
Some(v) == <<v>>
Val(x) == x[1]

----------------------------------------------------------------------------
(* Addresses and networks.  An address is one spelling out of a finite     *)
(* alphabet of spellings; Web3.to_checksum_address maps every spelling of  *)
(* a well-formed address to its one checksum spelling and raises on the    *)
(* rest; str.lower() folds the case.                                       *)

Invalid == "<invalid>"

ToChecksumAddress(addr) ==
    CASE addr \in {"0xab", "0xAB", "0xAb"} -> "0xAb"
      [] addr \in {"0xcd", "0xCD", "0xCd"} -> "0xCd"
      [] OTHER -> Invalid

Lower(s) ==
    CASE s \in {"0xab", "0xAB", "0xAb"} -> "0xab"
      [] s \in {"0xcd", "0xCD", "0xCd"} -> "0xcd"
      [] s \in {"sepolia", "Sepolia", "SEPOLIA"} -> "sepolia"
      [] s \in {"mainnet", "Mainnet"} -> "mainnet"
      [] OTHER -> s

Strip(s) ==
    CASE s = " Sepolia " -> "Sepolia"
      [] s = " " -> ""
      [] s = " 0xAB " -> "0xAB"
      [] s = " sepolia" -> "sepolia"
      [] s = "mainnet " -> "mainnet"
      [] OTHER -> s

\* abi_service._norm_addr: checksum form, raises on an empty or malformed one
NormAddr(addr) == IF addr = "" THEN Invalid ELSE ToChecksumAddress(addr)

\* abi_service._norm_net: (net or "sepolia").strip().lower()
NormNet(net) == Lower(Strip(IF net = "" THEN "sepolia" ELSE net))

\* the lookup key of the cache: (ca.lower(), nw)
CacheKey(addr, net) == <<Lower(NormAddr(addr)), NormNet(net)>>

----------------------------------------------------------------------------
(* Interface definitions (ABIs): sequences of descriptors *)

Fn(name, mut) == [type |-> "function", name |-> name, stateMutability |-> mut]
Ev(name) == [type |-> "event", name |-> name, stateMutability |-> ""]

AbiEmpty == <<>>
AbiToken == <<Fn("approve", "nonpayable"), Fn("name", "view")>>
AbiVault == <<Fn("withdraw", "payable"), Fn("owner", "view"),
              Fn("transferOwnership", ""), Fn("symbol", "pure"), Ev("Paid")>>

\* what the remote registry can hand back for an address (any list)
RemoteAbis == {AbiEmpty, AbiToken}

----------------------------------------------------------------------------
(* Feature extraction: audit_tasks._extract_features *)

MetaKeys == <<"name", "symbol", "decimals", "totalSupply">>

SeqToSet(s) == {s[i] : i \in DOMAIN s}

FnIdx(abi) == {i \in DOMAIN abi : abi[i].type = "function"}
FnNames(abi) == {abi[i].name : i \in FnIdx(abi)}
ViewIdx(abi) == {i \in FnIdx(abi) : abi[i].stateMutability \in {"view", "pure"}}
\* only a function that declares nonpayable or payable is a write
WriteIdx_Declared(abi) ==
    {i \in FnIdx(abi) : abi[i].stateMutability \in {"nonpayable", "payable"}}

WriteIdx(abi) == FnIdx(abi) \ ViewIdx(abi)

\* each flag looks for the function of its own name only
Flags_OwnName(abi) ==
    LET fn == FnNames(abi) IN
    [has_approve |-> "approve" \in fn,
     has_transferFrom |-> "transferFrom" \in fn,
     has_mint |-> "mint" \in fn,
     has_burn |-> "burn" \in fn,
     has_pause |-> "pause" \in fn,
     has_owner |-> "owner" \in fn,
     has_transferOwnership |-> "transferOwnership" \in fn,
     has_withdraw |-> "withdraw" \in fn]

Flags(abi) ==
    LET fn == FnNames(abi) IN
    [has_approve |-> "approve" \in fn,
     has_transferFrom |-> "transferFrom" \in fn,
     has_mint |-> ("mint" \in fn \/ "mintTo" \in fn),
     has_burn |-> "burn" \in fn,
     has_pause |-> ("pause" \in fn \/ "paused" \in fn),
     has_owner |-> ("owner" \in fn \/ "getOwner" \in fn),
     has_transferOwnership |-> "transferOwnership" \in fn,
     has_withdraw |-> "withdraw" \in fn]

\* the first metadata call that fails ends the reading of the metadata
MetaOk_StopAtFirst(abi, failing) ==
    {MetaKeys[i] : i \in {i \in DOMAIN MetaKeys :
                             /\ MetaKeys[i] \in FnNames(abi)
                             /\ \A j \in 1..i : MetaKeys[j] \notin failing}}

\* _safe_call: ok iff the contract has the function and the call succeeds
MetaOk(abi, failing) == {k \in SeqToSet(MetaKeys) : k \in FnNames(abi) /\ k \notin failing}

\* the on-chain value of a metadata function
OnChain(k) == <<"onchain", k>>

\* a probe is what the chain answers: code length, and the metadata calls that fail
ExtractFeatures(abi, probe) ==
    LET flags == Flags(abi)
        total == Cardinality(FnIdx(abi))
        nwrite == Cardinality(WriteIdx(abi))
        nview == Cardinality(ViewIdx(abi))
        base == [total_functions |-> total,
                 write_functions |-> nwrite,
                 view_functions |-> nview,
                 write_ratio |-> <<nwrite, IF total = 0 THEN 1 ELSE total>>,
                 risky_flags |-> Cardinality({f \in DOMAIN flags : flags[f]}),
                 is_contract |-> probe.code_len > 0,
                 code_len |-> probe.code_len]
        meta == [k \in MetaOk(abi, probe.failing) |-> OnChain(k)]
    IN  meta @@ flags @@ base

\* dict.get(key): None when the key is absent
Get(d, k) == IF k \in DOMAIN d THEN Some(d[k]) ELSE Null

Summary(address, network, feats) ==
    [address |-> address,
     network |-> network,
     name |-> Get(feats, "name"),
     symbol |-> Get(feats, "symbol"),
     decimals |-> Get(feats, "decimals"),
     code_len |-> Get(feats, "code_len"),
     total_functions |-> Get(feats, "total_functions")]

----------------------------------------------------------------------------
(* Risk level: audit_tasks._level_from_score.  Scores are rounded to four  *)
(* decimals by ai_service.risk_score, so a score is an integer number of   *)
(* ten-thousandths.                                                        *)

ScoreScale == 10000
HighThreshold == 7000
MediumThreshold == 5500

\* a strict comparison at the upper threshold
LevelFromScore_Strict(score) ==
    IF score > HighThreshold THEN "high"
    ELSE IF score >= MediumThreshold THEN "medium"
    ELSE "low"

\* a strict comparison at the lower threshold
LevelFromScore_StrictMedium(score) ==
    IF score >= HighThreshold THEN "high"
    ELSE IF score > MediumThreshold THEN "medium"
    ELSE "low"

\* audit_tasks._level_from_score
LevelFromScore(score) ==
    IF score >= HighThreshold THEN "high"
    ELSE IF score >= MediumThreshold THEN "medium"
    ELSE "low"

----------------------------------------------------------------------------
(* ABI cache store: the contract_abis table and abi_service.save_abi.      *)
(* A row's id is its index in abis (autoincrement primary key); rows are   *)
(* never deleted.                                                          *)

Min(S) == CHOOSE x \in S : \A y \in S : x <= y

\* ContractABI.query.filter_by(address=..., network=...).first(): a row id, 0 for None
FindRec(store, key) ==
    LET hits == {i \in DOMAIN store : <<store[i].address, store[i].network>> = key}
    IN  IF hits = {} THEN 0 ELSE Min(hits)

\* the rec = ContractABI(...) of save_abi's else branch
NewRow(key, abi, source, now) ==
    [address |-> key[1], network |-> key[2], source |-> source, abi |-> abi,
     created_at |-> now, updated_at |-> now]

\* the update branch forgets rec.source
UpdateRow_KeepSource(row, abi, source, now) ==
    [row EXCEPT !.abi = abi, !.updated_at = now]

\* the three assignments of save_abi's if branch
UpdateRow(row, abi, source, now) ==
    [row EXCEPT !.abi = abi, !.source = source, !.updated_at = now]

\* db.session.commit() of save_abi, given the row its query saw (seen):
\* an UPDATE of that row, or an INSERT that uq_contract_abis_address_network
\* rejects (IntegrityError) when a row for the key has been committed meanwhile
CommitSave(store, seen, key, abi, source, now) ==
    IF seen # 0
    THEN [ok |-> TRUE, store |-> [store EXCEPT ![seen] = UpdateRow(@, abi, source, now)]]
    ELSE IF FindRec(store, key) # 0
    THEN [ok |-> FALSE, store |-> store]
    ELSE [ok |-> TRUE, store |-> Append(store, NewRow(key, abi, source, now))]

\* values a caller passes as save_abi's abi argument: a list, a str (JSON
\* text) or anything else (a dict)
AbiArgList(v) == [t |-> "list", list |-> v, text |-> ""]
AbiArgStr(text) == [t |-> "str", list |-> <<>>, text |-> text]
AbiArgDict == [t |-> "dict", list |-> <<>>, text |-> ""]

\* an absent value (None)
AbiArgNone == [t |-> "none", list |-> <<>>, text |-> ""]

\* json.loads on the JSON texts of the model; t = "error" is JSONDecodeError
JsonLoads(text) ==
    CASE text = "[approve,name]" -> AbiArgList(AbiToken)
      [] text = "[]" -> AbiArgList(AbiEmpty)
      [] text = "{}" -> AbiArgDict
      [] OTHER -> [t |-> "error", list |-> <<>>, text |-> text]

\* save_abi as one call: the parse and type check (lines 65-68), _norm_addr
\* (line 70), the query (line 74) and the commit (lines 75-91)
SaveAbi(store, address, abi, network, source, now) ==
    LET parsed == IF abi.t = "str" THEN JsonLoads(abi.text) ELSE abi
        key == CacheKey(address, network)
        r == CommitSave(store, FindRec(store, key), key, parsed.list, source, now)
    IN  IF parsed.t = "error"
        THEN [ok |-> FALSE, err |-> "JSONDecodeError", store |-> store]
        ELSE IF parsed.t # "list"
        THEN [ok |-> FALSE, err |-> "Invalid ABI format: expected a JSON list", store |-> store]
        ELSE IF NormAddr(address) = Invalid
        THEN [ok |-> FALSE, err |-> "Empty or invalid contract address", store |-> store]
        ELSE IF ~r.ok
        THEN [ok |-> FALSE, err |-> "IntegrityError", store |-> store]
        ELSE [ok |-> TRUE, err |-> "", store |-> r.store]

----------------------------------------------------------------------------
(* Error texts (str(e)) *)

ErrWeb3 == "No se pudo conectar al nodo Web3"
ErrAddr == "Empty or invalid contract address"
ErrFetch == "Etherscan error"
ErrNoAbi == "No se pudo resolver la ABI para el contrato"
ErrIntegrity == "IntegrityError uq_contract_abis_address_network"
ErrRpc == "get_code or scorer failed"
ErrDb == "commit failed"

----------------------------------------------------------------------------
(* Rows of analysis_jobs and contract_audits *)

NoResult == [kind |-> "null"]

\* AnalysisJob(status="queued", params=...)
NewJob(params) == [status |-> "queued", params |-> params, result |-> NoResult, task_id |-> Null]

\* the constructor call leaves status to the column default
NewAudit_Queued(address, network, now) ==
    [address |-> Lower(address), network |-> network, status |-> "queued",
     started_at |-> now, finished_at |-> Null, ai_score |-> Null, risk_level |-> Null,
     summary |-> Null, features |-> Null, details |-> Null]

\* ContractAudit(address=address.lower(), network=network, status="running", started_at=now)
NewAudit(address, network, now) ==
    [address |-> Lower(address), network |-> network, status |-> "running",
     started_at |-> now, finished_at |-> Null, ai_score |-> Null, risk_level |-> Null,
     summary |-> Null, features |-> Null, details |-> Null]

\* the level is computed but not stored
AuditDone_NoLevel(aud, score, level, summary, feats, now) ==
    [aud EXCEPT !.ai_score = Some(score),
                !.summary = Some(summary), !.features = Some(feats),
                !.details = Some([ia_raw |-> score]),
                !.status = "done", !.finished_at = Some(now)]

\* run_audit's success write of the Audit (one commit)
AuditDone(aud, score, level, summary, feats, now) ==
    [aud EXCEPT !.ai_score = Some(score), !.risk_level = Some(level),
                !.summary = Some(summary), !.features = Some(feats),
                !.details = Some([ia_raw |-> score]),
                !.status = "done", !.finished_at = Some(now)]

\* the except block forgets finished_at
AuditError_NoFinish(aud, now) == [aud EXCEPT !.status = "error"]

\* the except block marks only the Job
AuditError_Skip(aud, now) == aud

\* run_audit's failure write of the Audit (first commit of the except block)
AuditError(aud, now) == [aud EXCEPT !.status = "error", !.finished_at = Some(now)]

\* the result names the first Audit of the store
JobDoneWrite_FirstAudit(job, auditId, score, level) ==
    [job EXCEPT !.status = "done",
                !.result = [kind |-> "audit", audit_id |-> 1,
                            ai_score |-> score, risk_level |-> level]]

\* run_audit's success write of the Job
JobDoneWrite(job, auditId, score, level) ==
    [job EXCEPT !.status = "done",
                !.result = [kind |-> "audit", audit_id |-> auditId,
                            ai_score |-> score, risk_level |-> level]]

\* the except block drops the error text
JobErrorWrite_NoText(job, err) == [job EXCEPT !.status = "error"]

\* run_audit's failure write of the Job (second commit of the except block)
JobErrorWrite(job, err) ==
    [job EXCEPT !.status = "error", !.result = [kind |-> "error", error |-> err]]

----------------------------------------------------------------------------
(* Task queue: one message per enqueue; the queue delivers at least once,  *)
(* so a message can be handed to a worker again, also while an earlier     *)
(* delivery is still running.                                              *)

\* audit_routes._as_bool / audit_tasks._as_bool: str(v).lower() in (...)
AsBool(v) == v \in {"1", "true", "True", "TRUE", "yes", "Yes", "on", "On"}

\* str(b) of a Python bool, as the message and the params carry it
PyBool(b) == IF b THEN "True" ELSE "False"

IdleWk == [pc |-> "idle", job |-> 0, address |-> "", network |-> "", force |-> FALSE,
           audit |-> 0, abi |-> <<>>, seen |-> 0, score |-> 0, err |-> "", tx |-> 0]

\* no request in hand, nothing answered yet
NoResponse == [code |-> 0]
IdleWeb == [pc |-> "idle", job |-> 0, address |-> "", network |-> "", force |-> FALSE,
            task_id |-> 0, resp |-> NoResponse]

Init ==
    /\ jobs = <<>>
    /\ audits = <<>>
    /\ abis = <<>>
    /\ queue = <<>>
    /\ wk = [w \in Workers |-> IdleWk]
    /\ clock = 1
    /\ last = [op |-> "none"]
    /\ web = IdleWeb
    /\ txs = <<>>

----------------------------------------------------------------------------
(* POST /api/audit/start: audit_routes.start *)

StartAddrs == {"0xAB", " ", ""}
StartNets == {"", " Sepolia "}
ForceInputs == {"True", "False", "yes"}

Start(addrIn, netIn, forceIn) ==
    LET address == IF addrIn = " " THEN "" ELSE addrIn      \* .strip()
        network == Lower(Strip(IF netIn = "" THEN "sepolia" ELSE netIn))
        force == AsBool(forceIn)
        id == Len(jobs) + 1
    IN  IF address = ""
        THEN UNCHANGED vars          \* 400, nothing created
        ELSE /\ Len(jobs) < MaxJobs
             /\ Len(queue) < MaxJobs
             /\ jobs' = Append(jobs,
                   [NewJob([address |-> address, network |-> network, force_refresh |-> force])
                        EXCEPT !.task_id = Some(Len(queue) + 1)])
             /\ queue' = Append(queue,
                   [task |-> "audit.run", job_id |-> id, address |-> address,
                    network |-> network, force_refresh |-> PyBool(force), deliveries |-> 0])
             /\ UNCHANGED <<audits, abis, wk, clock, last, web, txs>>

\* audit.run is registered under its name with job_id as a plain argument: a
\* client of the broker other than the route can send it with a job id for
\* which no Job row exists
PublishAddrs == {"0xAB"}

Publish(jobId, address) ==
    /\ Len(queue) < MaxJobs
    /\ jobId \notin DOMAIN jobs
    /\ queue' = Append(queue,
          [task |-> "audit.run", job_id |-> jobId, address |-> address,
           network |-> "sepolia", force_refresh |-> "False", deliveries |-> 0])
    /\ UNCHANGED <<jobs, audits, abis, wk, clock, last, web, txs>>

----------------------------------------------------------------------------
(* run_audit, step by step *)

SetWk(w, rec) == wk' = [wk EXCEPT ![w] = rec]

\* an exception inside the try block: control moves to the except block
Fail(w, err) == SetWk(w, [wk[w] EXCEPT !.pc = "handler_audit", !.err = err])

RECURSIVE SumDeliveries(_)
SumDeliveries(q) == IF q = <<>> THEN 0 ELSE Head(q).deliveries + SumDeliveries(Tail(q))

\* the pool hands a delivery to its first idle worker
FirstIdle(w) == wk[w].pc = "idle" /\ \A v \in Workers : v < w => wk[v].pc # "idle"

\* the task raises instead of returning
NotFound_Raise(jobId) ==
    [op |-> "audit.run", kind |-> "raise", job |-> jobId, audit_id |-> 0,
     error |-> "job no encontrado"]

\* line 117: return {"error": "job no encontrado", "job_id": job_id}
NotFound(jobId) == [op |-> "audit.run", kind |-> "notfound", job |-> jobId]

\* the execution works on the first Job of the table, whatever id it was given
LoadJob_First(store, jobId) == IF store = <<>> THEN 0 ELSE 1

\* line 115: AnalysisJob.query.get(job_id), the row's id or 0 for None
LoadJob(store, jobId) == IF jobId \in DOMAIN store THEN jobId ELSE 0

\* the execution takes over the Audit row of an earlier execution for the
\* same contract instead of adding one
AddAudit_Reuse(store, row) ==
    IF \E a \in DOMAIN store : store[a].address = row.address /\ store[a].network = row.network
    THEN store
    ELSE Append(store, row)

\* lines 119-126: db.session.add(audit); db.session.commit()
AddAudit(store, row) == Append(store, row)

\* lines 114-126: the worker takes a delivery, loads the Job, creates the Audit
RunAuditBegin(w, m) ==
    /\ FirstIdle(w)
    /\ m \in DOMAIN queue
    /\ queue[m].task = "audit.run"
    /\ SumDeliveries(queue) < MaxDeliveries
    /\ queue' = [queue EXCEPT ![m].deliveries = @ + 1]
    /\ IF LoadJob(jobs, queue[m].job_id) = 0
       THEN /\ SetWk(w, IdleWk)
            /\ last' = NotFound(queue[m].job_id)
            /\ UNCHANGED audits
       ELSE /\ audits' = AddAudit(audits, NewAudit(queue[m].address, queue[m].network, clock))
            /\ SetWk(w, [IdleWk EXCEPT !.pc = "resolve",
                                       !.job = LoadJob(jobs, queue[m].job_id),
                                       !.address = queue[m].address,
                                       !.network = queue[m].network,
                                       !.force = AsBool(queue[m].force_refresh),
                                       !.audit = Len(audits')])
            /\ UNCHANGED last
    /\ UNCHANGED <<jobs, abis, clock, web, txs>>

\* lines 129-137: _make_w3, then the fetch (force_refresh) or get_or_fetch_abi's
\* cache read and fetch; save_abi's own query is part of this step only on the
\* force_refresh path, where no other query precedes it
Resolve(w) ==
    LET key == CacheKey(wk[w].address, wk[w].network)
        valid == NormAddr(wk[w].address) # Invalid
        rec == FindRec(abis, key)
        \* get_cached_abi: record.abi if record else None; "if cached:" is false
        \* for None and for an empty list alike
        cached == IF rec = 0 THEN <<>> ELSE abis[rec].abi
    IN
    /\ wk[w].pc = "resolve"
    /\ \/ Fail(w, ErrWeb3)
       \/ /\ wk[w].force
          /\ \/ Fail(w, IF valid THEN ErrFetch ELSE ErrAddr)
             \/ /\ valid
                /\ \E abi \in RemoteAbis :
                     SetWk(w, [wk[w] EXCEPT !.pc = "save_commit", !.abi = abi, !.seen = rec])
       \/ /\ ~wk[w].force
          /\ \/ /\ valid
                /\ cached # <<>>
                /\ SetWk(w, [wk[w] EXCEPT !.pc = "extract", !.abi = cached])
             \/ /\ valid
                /\ cached = <<>>
                /\ \E abi \in RemoteAbis :
                        SetWk(w, [wk[w] EXCEPT !.pc = "save_read", !.abi = abi])
             \/ /\ (~valid \/ cached = <<>>)
                /\ Fail(w, IF valid THEN ErrFetch ELSE ErrAddr)
    /\ UNCHANGED <<jobs, audits, abis, queue, clock, last, web, txs>>

\* save_abi lines 70-74 on the cache-miss path: the query of save_abi
SaveRead(w) ==
    /\ wk[w].pc = "save_read"
    /\ SetWk(w, [wk[w] EXCEPT !.pc = "save_commit",
                              !.seen = FindRec(abis, CacheKey(wk[w].address, wk[w].network))])
    /\ UNCHANGED <<jobs, audits, abis, queue, clock, last, web, txs>>

\* save_abi lines 75-91 (the commit), then run_audit lines 139-140
SaveCommit(w) ==
    LET key == CacheKey(wk[w].address, wk[w].network)
        r == CommitSave(abis, wk[w].seen, key, wk[w].abi, "etherscan", clock)
    IN
    /\ wk[w].pc = "save_commit"
    /\ IF r.ok
       THEN /\ abis' = r.store
            /\ IF wk[w].abi = <<>>
               THEN Fail(w, ErrNoAbi)
               ELSE SetWk(w, [wk[w] EXCEPT !.pc = "extract"])
       ELSE /\ UNCHANGED abis
            /\ Fail(w, ErrIntegrity)
    /\ UNCHANGED <<jobs, audits, queue, clock, last, web, txs>>

\* what the chain answers to get_code and to the four metadata calls
Probes == {[code_len |-> 120, failing |-> {}]}

\* risk scores the scorer can return, in ten-thousandths
Scores == {5499, 7000}

\* lines 142-169: features, score, level, summary and the Audit's commit
Extract(w) ==
    /\ wk[w].pc = "extract"
    /\ \/ Fail(w, ErrRpc) /\ UNCHANGED audits
       \/ Fail(w, ErrDb) /\ UNCHANGED audits
       \/ \E probe \in Probes, score \in Scores :
            LET feats == ExtractFeatures(wk[w].abi, probe)
                level == LevelFromScore(score)
                summary == Summary(wk[w].address, wk[w].network, feats)
            IN  /\ audits' = [audits EXCEPT ![wk[w].audit] =
                                  AuditDone(@, score, level, summary, feats, clock)]
                /\ SetWk(w, [wk[w] EXCEPT !.pc = "job_done", !.score = score])
    /\ UNCHANGED <<jobs, abis, queue, clock, last, web, txs>>

\* lines 171-175: the Job's commit and the return
JobDone(w) ==
    LET score == wk[w].score
        level == LevelFromScore(score)
    IN
    /\ wk[w].pc = "job_done"
    /\ \/ /\ jobs' = [jobs EXCEPT ![wk[w].job] = JobDoneWrite(@, wk[w].audit, score, level)]
          /\ SetWk(w, IdleWk)
          /\ last' = [op |-> "audit.run", kind |-> "ok", job |-> wk[w].job,
                      audit_id |-> wk[w].audit, ai_score |-> score, risk_level |-> level]
       \/ /\ Fail(w, ErrDb)
          /\ UNCHANGED <<jobs, last>>
    /\ UNCHANGED <<audits, abis, queue, clock, web, txs>>

\* lines 177-180: the except block's write of the Audit
HandlerAudit(w) ==
    /\ wk[w].pc = "handler_audit"
    /\ audits' = [audits EXCEPT ![wk[w].audit] = AuditError(@, clock)]
    /\ SetWk(w, [wk[w] EXCEPT !.pc = "handler_job"])
    /\ UNCHANGED <<jobs, abis, queue, clock, last, web, txs>>

\* lines 182-185: the except block's write of the Job, and the re-raise
HandlerJob(w) ==
    /\ wk[w].pc = "handler_job"
    /\ jobs' = [jobs EXCEPT ![wk[w].job] = JobErrorWrite(@, wk[w].err)]
    /\ SetWk(w, IdleWk)
    /\ last' = [op |-> "audit.run", kind |-> "raise", job |-> wk[w].job,
                audit_id |-> wk[w].audit, error |-> wk[w].err]
    /\ UNCHANGED <<audits, abis, queue, clock, web, txs>>

Next ==
    \/ \E a \in StartAddrs, n \in StartNets, f \in ForceInputs : Start(a, n, f)
    \/ \E j \in 1..(MaxJobs + 1), a \in PublishAddrs : Publish(j, a)
    \/ \E w \in Workers, m \in 1..MaxJobs : RunAuditBegin(w, m)
    \/ \E w \in Workers : Resolve(w)
    \/ \E w \in Workers : SaveRead(w)
    \/ \E w \in Workers : SaveCommit(w)
    \/ \E w \in Workers : Extract(w)
    \/ \E w \in Workers : JobDone(w)
    \/ \E w \in Workers : HandlerAudit(w)
    \/ \E w \in Workers : HandlerJob(w)

Spec == Init /\ [][Next]_vars

----------------------------------------------------------------------------
(* Properties of the orchestration (specification Spec) *)

JobRank(status) ==
    CASE status = "queued" -> 0
      [] status = "running" -> 1
      [] status = "pending" -> 2
      [] status \in {"done", "error"} -> 3

Terminal(status) == status \in {"done", "error"}

\* C1: a Job's status only moves forward along queued -> running ->
\* (done | error | pending -> done | error), and once it is done or error
\* neither its status nor its result changes again, redelivery included.
C1_JobMonotonic ==
    [][\A j \in DOMAIN jobs :
          /\ JobRank(jobs'[j].status) >= JobRank(jobs[j].status)
          /\ Terminal(jobs[j].status) =>
                /\ jobs'[j].status = jobs[j].status
                /\ jobs'[j].result = jobs[j].result]_vars

\* C2: an Audit gets exactly one terminal write: once it is done (or error),
\* no later step changes its status, finished_at, score or level.
C2_AuditTerminalOnce ==
    [][\A a \in DOMAIN audits :
          Terminal(audits[a].status) =>
             /\ audits'[a].status = audits[a].status
             /\ audits'[a].finished_at = audits[a].finished_at
             /\ audits'[a].ai_score = audits[a].ai_score
             /\ audits'[a].risk_level = audits[a].risk_level]_vars

\* C3: in every persisted state of every Audit, ai_score and risk_level are
\* both present or both absent.
C3_ScoreLevelTogether ==
    \A a \in DOMAIN audits : (audits[a].ai_score = Null) <=> (audits[a].risk_level = Null)

\* an Audit that ended in error after its score was stored, beside one without a score
C3_Witness ==
    /\ \E a \in DOMAIN audits :
          audits[a].status = "error" /\ audits[a].ai_score # Null /\ audits[a].risk_level # Null
    /\ \E a \in DOMAIN audits : audits[a].status = "error" /\ audits[a].ai_score = Null

\* C4: in every persisted state of every Audit, finished_at is set if and
\* only if the status is done or error.
C4_FinishedIffTerminal ==
    \A a \in DOMAIN audits : (audits[a].finished_at # Null) <=> Terminal(audits[a].status)

\* a running Audit beside one the except block has closed
C4_Witness ==
    /\ \E a \in DOMAIN audits : audits[a].status = "running"
    /\ \E a \in DOMAIN audits : audits[a].status = "error"

\* the executions of run_audit that have not completed own these Audits
OwnedAudits == {wk[w].audit : w \in Workers}

C7_LastWriteWins ==
    [][\A w \in Workers :
          (wk[w].pc = "save_commit" /\ wk'[w].pc # "save_commit") =>
             LET key == CacheKey(wk[w].address, wk[w].network) IN
             /\ wk'[w].err # ErrIntegrity
             /\ Cardinality({i \in DOMAIN abis' :
                               <<abis'[i].address, abis'[i].network>> = key}) = 1
             /\ abis'[FindRec(abis', key)].abi = wk[w].abi]_vars

\* C8: run_audit sets the Job to running before it creates the Audit, so a Job
\* whose audit is in progress is never observed as queued.
C8_RunningWhileAudited ==
    \A w \in Workers : wk[w].pc # "idle" => jobs[wk[w].job].status # "queued"

\* the level the threshold table gives a score (in ten-thousandths)
TableLevel(score) ==
    CASE score >= 7000 -> "high"
      [] score >= 5500 /\ score < 7000 -> "medium"
      [] score < 5500 -> "low"

\* C9: when run_audit succeeds, the Audit is persisted done with finished_at,
\* ai_score, the threshold level of that score, summary and the feature vector;
\* then the Job is persisted done with result {audit_id, score, level}, and the
\* task returns the same audit id, score and level.
C9_SuccessPersists ==
    [][\A w \in Workers :
          (wk[w].pc = "job_done" /\ wk'[w].pc = "idle") =>
             LET a == wk[w].audit
                 j == wk[w].job
                 aud == audits'[a]
                 s == wk[w].score
                 lvl == TableLevel(s)
             IN  /\ aud.status = "done"
                 /\ aud.finished_at # Null
                 /\ aud.ai_score = Some(s)
                 /\ aud.risk_level = Some(lvl)
                 /\ aud.summary # Null
                 /\ Val(aud.summary).address = wk[w].address
                 /\ aud.features # Null
                 /\ Val(aud.features).total_functions =
                       Cardinality({i \in DOMAIN wk[w].abi : wk[w].abi[i].type = "function"})
                 /\ Val(aud.summary).total_functions = Some(Val(aud.features).total_functions)
                 /\ jobs'[j].status = "done"
                 /\ jobs'[j].result = [kind |-> "audit", audit_id |-> a,
                                       ai_score |-> s, risk_level |-> lvl]
                 /\ last' = [op |-> "audit.run", kind |-> "ok", job |-> j,
                             audit_id |-> a, ai_score |-> s, risk_level |-> lvl]]_vars

\* a successful execution at the upper threshold
C9_Witness ==
    /\ last.op = "audit.run"
    /\ last.kind = "ok"
    /\ last.ai_score = 7000
    /\ jobs[last.job].status = "done"
    /\ jobs[last.job].result.kind = "audit"
    /\ jobs[last.job].result.audit_id = last.audit_id
    /\ audits[last.audit_id].status = "done"
    /\ Val(audits[last.audit_id].features).total_functions = 2

\* C10: when the remote fetch fails inside run_audit and no cache entry exists,
\* the Audit ends in error, the Job ends in error with a result holding an
\* error description, and the exception is re-raised.
C10_FetchFailureRecorded ==
    [][\A w \in Workers :
          (wk[w].pc = "handler_job" /\ wk'[w].pc = "idle" /\ wk[w].err = ErrFetch) =>
             /\ audits'[wk[w].audit].status = "error"
             /\ jobs'[wk[w].job].status = "error"
             /\ jobs'[wk[w].job].result = [kind |-> "error", error |-> ErrFetch]
             /\ last'.op = "audit.run"
             /\ last'.kind = "raise"
             /\ last'.job = wk[w].job]_vars

\* a failed fetch with no cache entry for the address, recorded on both rows
C10_Witness ==
    /\ last.op = "audit.run"
    /\ last.kind = "raise"
    /\ last.error = ErrFetch
    /\ abis = <<>>
    /\ jobs[last.job].status = "error"
    /\ jobs[last.job].result.kind = "error"
    /\ audits[last.audit_id].status = "error"

\* C11: when a step of run_audit fails after the Audit was created, the error
\* text is captured in both records: the Audit's details hold the failure
\* detail and the Job's result holds the error description.
C11_ErrorTextInBoth ==
    [][\A w \in Workers :
          (wk[w].pc = "handler_job" /\ wk'[w].pc = "idle") =>
             LET det == audits'[wk[w].audit].details IN
             /\ jobs'[wk[w].job].result = [kind |-> "error", error |-> wk[w].err]
             /\ IF det = Null THEN FALSE
                ELSE IF "error" \in DOMAIN Val(det) THEN Val(det).error = wk[w].err
                ELSE FALSE]_vars

\* C12: run_audit invoked with a job id for which no Job exists aborts without
\* raising, reports the missing job in its return value, creates no Audit and
\* writes nothing to the ABI cache or to any Job.
C12_JobNotFoundAborts ==
    [][\A m \in DOMAIN queue :
          (queue'[m].deliveries = queue[m].deliveries + 1
             /\ queue[m].job_id \notin DOMAIN jobs) =>
             /\ audits' = audits
             /\ abis' = abis
             /\ jobs' = jobs
             /\ wk' = wk
             /\ last' = [op |-> "audit.run", kind |-> "notfound", job |-> queue[m].job_id]]_vars

\* a delivery for a job id without a row has returned, beside a Job the route created
C12_Witness ==
    /\ last.op = "audit.run"
    /\ last.kind = "notfound"
    /\ last.job \notin DOMAIN jobs
    /\ Len(jobs) > 0
    /\ audits = <<>>

\* C13: run_audit creates and commits the Audit, status running, before ABI
\* resolution begins, so every execution past that point, the failed ones
\* included, has a persisted Audit of its own.
C13_AuditBeforeResolve ==
    \A w \in Workers :
        wk[w].pc # "idle" =>
            LET a == wk[w].audit IN
            IF a \notin DOMAIN audits THEN FALSE
            ELSE /\ audits[a].address = Lower(wk[w].address)
                 /\ audits[a].network = wk[w].network
                 /\ audits[a].started_at <= clock
                 /\ wk[w].pc = "resolve" =>
                       audits[a].status = "running" /\ audits[a].finished_at = Null
                 /\ wk[w].pc = "handler_job" => audits[a].status = "error"
                 /\ \A v \in Workers : (v # w /\ wk[v].pc # "idle") => wk[v].audit # a

\* two attempts for the same Job, one about to resolve and one that failed, each with its Audit
C13_Witness ==
    \E w, v \in Workers :
        /\ wk[w].pc = "resolve"
        /\ wk[v].pc = "handler_job"
        /\ wk[w].job = wk[v].job
        /\ audits[wk[w].audit].status = "running"
        /\ audits[wk[v].audit].status = "error"

\* C23: the orchestration is not idempotent across redelivery: every delivery
\* of an audit.run message whose Job exists adds exactly one Audit row and
\* leaves the rows already there as they are (so n deliveries of one message
\* give n distinct rows), no other step adds a row, and a step that changes
\* an Audit row is a step of the one execution that created that row.
C23_RedeliveryAddsAudit ==
    [][/\ \A m \in DOMAIN queue :
             queue'[m].deliveries = queue[m].deliveries + 1 =>
                IF queue[m].job_id \in DOMAIN jobs
                THEN /\ Len(audits') = Len(audits) + 1
                     /\ \A a \in DOMAIN audits : audits'[a] = audits[a]
                     /\ \E w \in Workers :
                           /\ wk[w].pc = "idle"
                           /\ wk'[w].audit = Len(audits')
                           /\ \A v \in Workers \ {w} : wk'[v].audit # Len(audits')
                ELSE audits' = audits
       /\ SumDeliveries(queue') = SumDeliveries(queue) => Len(audits') = Len(audits)
       /\ \A a \in DOMAIN audits :
             audits'[a] # audits[a] =>
                \E w \in Workers :
                   /\ wk[w].audit = a
                   /\ wk'[w] # wk[w]
                   /\ \A v \in Workers \ {w} : wk[v].audit # a]_vars

\* one message delivered twice for its Job: two Audit rows
C23_Witness ==
    \E m \in DOMAIN queue :
        /\ queue[m].deliveries = 2
        /\ queue[m].job_id \in DOMAIN jobs
        /\ Len(audits) = 2
        /\ \E j \in DOMAIN jobs : jobs[j].status = "done"

\* C24: audits that run concurrently do not interfere through Job or Audit
\* rows: an execution works on the Job whose id its message carries, and each
\* of its steps changes no Job row but that one and no Audit row but the one
\* it created; every other row, and every other worker, is left as it was.
C24_WritesOwnRowsOnly ==
    [][\A w \in Workers :
          wk'[w] # wk[w] =>
             /\ \A m \in DOMAIN queue :
                   queue'[m].deliveries = queue[m].deliveries + 1 =>
                      wk'[w].job \in {0, queue[m].job_id}
             /\ wk[w].pc # "idle" =>
                   /\ wk'[w].job \in {0, wk[w].job}
                   /\ wk'[w].audit \in {0, wk[w].audit}
             /\ Len(jobs') = Len(jobs)
             /\ \A j \in DOMAIN jobs : jobs'[j] # jobs[j] => j = wk[w].job
             /\ \A a \in DOMAIN audits : audits'[a] # audits[a] => a = wk[w].audit
             /\ \A v \in Workers \ {w} : wk'[v] = wk[v]]_vars

\* two executions for different Jobs under way, one has written its Audit,
\* the other has not
C24_Witness ==
    \E w, v \in Workers :
        /\ wk[w].pc = "job_done"
        /\ wk[v].pc \in {"resolve", "save_read", "save_commit", "extract"}
        /\ wk[w].job # wk[v].job
        /\ audits[wk[w].audit].status = "done"
        /\ audits[wk[v].audit].status = "running"

\* C38: in every reachable state, redeliveries included, a Job that
\* run_audit has set to done has a result whose audit_id names an existing
\* Audit that is done and has the score and the level of the result; and
\* that Audit was already done when the Job was written.
C38_DoneJobNamesDoneAudit ==
    /\ [](\A j \in DOMAIN jobs :
             jobs[j].status = "done" =>
                LET r == jobs[j].result IN
                /\ r.kind = "audit"
                /\ r.audit_id \in DOMAIN audits
                /\ audits[r.audit_id].status = "done"
                /\ audits[r.audit_id].ai_score = Some(r.ai_score)
                /\ audits[r.audit_id].risk_level = Some(r.risk_level))
    /\ [][\A j \in DOMAIN jobs :
             (jobs'[j] # jobs[j] /\ jobs'[j].status = "done") =>
                LET r == jobs'[j].result IN
                /\ r.audit_id \in DOMAIN audits
                /\ audits[r.audit_id].status = "done"
                /\ audits'[r.audit_id] = audits[r.audit_id]]_vars

\* a redelivered Job is done with the Audit of its second execution, after
\* its first execution failed
C38_Witness ==
    \E j \in DOMAIN jobs :
        /\ jobs[j].status = "done"
        /\ jobs[j].result.audit_id = 2
        /\ audits[2].status = "done"
        /\ audits[1].status = "error"
        /\ audits[1].address = audits[2].address
        /\ \A w \in Workers : wk[w].pc = "idle"

----------------------------------------------------------------------------
(* The cache store used by one caller at a time (specification SpecCache): *)
(* every call runs to completion before the next one starts, and the clock *)
(* advances between calls.  last records the call and what it returned.    *)

CacheAddrs == {"0xab", "0xAB", "zz", ""}
CacheNets == {"", " Sepolia ", "sepolia", "mainnet"}
CacheSources == {"manual", "etherscan"}
CacheAbiArgs == {AbiArgList(AbiToken), AbiArgList(AbiVault), AbiArgList(AbiEmpty),
                 AbiArgStr("[approve,name]"), AbiArgStr("{}"), AbiArgStr("<html>"),
                 AbiArgDict}

\* a direct save_abi(address, abi, network, source)
CacheSave(address, network, abi, source) ==
    LET r == SaveAbi(abis, address, abi, network, source, clock) IN
    /\ clock < MaxClock
    /\ abis' = r.store
    /\ last' = [op |-> "save_abi", address |-> address, network |-> network,
                abi |-> abi, source |-> source, saved |-> r.ok, err |-> r.err]
    /\ clock' = clock + 1
    /\ UNCHANGED <<jobs, audits, queue, wk, web, txs>>

\* a resolution with force_refresh: blockchain_service._resolve_abi lines 77-80
CacheForceRefresh(address, network) ==
    /\ clock < MaxClock
    /\ \/ /\ last' = [op |-> "force_refresh", address |-> address, network |-> network,
                      abi |-> AbiArgDict, source |-> "etherscan", saved |-> FALSE,
                      err |-> IF NormAddr(address) = Invalid THEN ErrAddr ELSE ErrFetch]
          /\ UNCHANGED abis
       \/ /\ NormAddr(address) # Invalid
          /\ \E fresh \in RemoteAbis :
               LET r == SaveAbi(abis, address, AbiArgList(fresh), network, "etherscan", clock) IN
               /\ abis' = r.store
               /\ last' = [op |-> "force_refresh", address |-> address, network |-> network,
                           abi |-> AbiArgList(fresh), source |-> "etherscan",
                           saved |-> r.ok, err |-> r.err]
    /\ clock' = clock + 1
    /\ UNCHANGED <<jobs, audits, queue, wk, web, txs>>

\* abi_service.get_or_fetch_abi: the cache, or a fetch that is then saved
CacheGetOrFetch(address, network) ==
    LET nw == NormNet(network)
        rec == FindRec(abis, CacheKey(address, nw))
        cached == IF rec = 0 THEN <<>> ELSE abis[rec].abi
        valid == NormAddr(address) # Invalid
    IN
    /\ clock < MaxClock
    /\ \/ /\ valid
          /\ cached # <<>>
          /\ last' = [op |-> "get_or_fetch", address |-> address, network |-> network,
                      abi |-> AbiArgList(cached), source |-> "cache", saved |-> FALSE,
                      err |-> ""]
          /\ UNCHANGED abis
       \/ /\ (~valid \/ cached = <<>>)
          /\ last' = [op |-> "get_or_fetch", address |-> address, network |-> network,
                      abi |-> AbiArgDict, source |-> "etherscan", saved |-> FALSE,
                      err |-> IF valid THEN ErrFetch ELSE ErrAddr]
          /\ UNCHANGED abis
       \/ /\ valid
          /\ cached = <<>>
          /\ \E fresh \in RemoteAbis :
               LET r == SaveAbi(abis, address, AbiArgList(fresh), nw, "etherscan", clock) IN
               /\ abis' = r.store
               /\ last' = [op |-> "get_or_fetch", address |-> address, network |-> network,
                           abi |-> AbiArgList(fresh), source |-> "etherscan",
                           saved |-> r.ok, err |-> r.err]
    /\ clock' = clock + 1
    /\ UNCHANGED <<jobs, audits, queue, wk, web, txs>>

\* the lookup goes by the address as the caller spelled it
GetCachedRecord_Raw(store, address, network) ==
    IF NormAddr(address) = Invalid THEN [ok |-> FALSE, rec |-> 0]
    ELSE [ok |-> TRUE, rec |-> FindRec(store, <<address, NormNet(network)>>)]

\* abi_service.get_cached_record: the record's row id (0 for None), or the
\* ValueError of _norm_addr
GetCachedRecord(store, address, network) ==
    IF NormAddr(address) = Invalid THEN [ok |-> FALSE, rec |-> 0]
    ELSE [ok |-> TRUE, rec |-> FindRec(store, CacheKey(address, network))]

\* a direct get_cached_record(address, network)
CacheGet(address, network) ==
    LET r == GetCachedRecord(abis, address, network) IN
    /\ clock < MaxClock
    /\ last' = [op |-> "get", address |-> address, network |-> network,
                abi |-> IF r.rec = 0 THEN AbiArgNone ELSE AbiArgList(abis[r.rec].abi),
                source |-> IF r.rec = 0 THEN "" ELSE abis[r.rec].source,
                saved |-> FALSE, err |-> IF r.ok THEN "" ELSE ErrAddr]
    /\ clock' = clock + 1
    /\ UNCHANGED <<jobs, audits, abis, queue, wk, web, txs>>

NextCache ==
    \/ \E a \in CacheAddrs, n \in CacheNets, abi \in CacheAbiArgs, src \in CacheSources :
          CacheSave(a, n, abi, src)
    \/ \E a \in CacheAddrs, n \in CacheNets : CacheForceRefresh(a, n)
    \/ \E a \in CacheAddrs, n \in CacheNets : CacheGetOrFetch(a, n)
    \/ \E a \in CacheAddrs, n \in CacheNets : CacheGet(a, n)

SpecCache == Init /\ [][NextCache]_vars

\* the rows of a store that answer a lookup key
RowsOf(store, key) == {i \in DOMAIN store : <<store[i].address, store[i].network>> = key}

\* the definition an abi argument denotes
Denoted(abi) ==
    CASE abi.t = "list" -> abi.list
      [] abi.t = "str" /\ abi.text = "[approve,name]" -> AbiToken
      [] abi.t = "str" /\ abi.text = "[]" -> AbiEmpty

\* C6: after any sequence of sequential upserts (save_abi called directly, by
\* a force_refresh resolution or by a cache-miss fetch) the cache holds exactly
\* one record for the key, with the definition and provenance of the latest
\* upsert; an upsert of an existing key updates updated_at on that row and
\* inserts no second row.
C6_UpsertOneRecord ==
    [][(clock' # clock /\ last'.saved) =>
          LET key == CacheKey(last'.address, last'.network)
              old == RowsOf(abis, key)
              new == RowsOf(abis', key)
          IN  /\ Cardinality(new) = 1
              /\ \A i \in new : /\ abis'[i].abi = Denoted(last'.abi)
                                /\ abis'[i].source = last'.source
                                /\ abis'[i].updated_at = clock
              /\ old # {} => /\ new = old
                             /\ Len(abis') = Len(abis)
                             /\ \A i \in old : abis'[i].created_at = abis[i].created_at
              /\ old = {} => Len(abis') = Len(abis) + 1
              /\ \A i \in DOMAIN abis : i \notin old => abis'[i] = abis[i]]_vars

\* a second force_refresh of a key saved before: one row, updated after it was created
C6_Witness ==
    /\ last.op = "force_refresh"
    /\ last.saved
    /\ Len(abis) = 1
    /\ abis[1].updated_at > abis[1].created_at
    /\ abis[1].source = "etherscan"
    /\ abis[1].abi = AbiToken

\* spellings of one address that differ only in letter case, and spellings of
\* one network that differ only in case or surrounding whitespace
AddressSpellings == {{"0xab", "0xAB", "0xAb"}, {"0xcd", "0xCD", "0xCd"}}
NetworkSpellings == {{"sepolia", "Sepolia", "SEPOLIA", " Sepolia ", " sepolia"},
                     {"mainnet", "Mainnet", "mainnet "}}
SameAddress(a, b) == \E c \in AddressSpellings : a \in c /\ b \in c
SameNetwork(a, b) == \E c \in NetworkSpellings : a \in c /\ b \in c

\* C21: cache lookups are case-insensitive in the address: a record upserted
\* under one spelling of an address (and of the network) is returned by a get
\* under another spelling, and an upsert under another spelling updates that
\* same record.
C21_CaseInsensitiveLookup ==
    [][(/\ clock' # clock
        /\ last.op # "none"
        /\ last.saved
        /\ SameAddress(last.address, last'.address)
        /\ SameNetwork(last.network, last'.network)) =>
          /\ last'.op = "get" =>
                /\ last'.err = ""
                /\ last'.abi = AbiArgList(Denoted(last.abi))
                /\ last'.source = last.source
          /\ (last'.op = "save_abi" /\ last'.saved) =>
                /\ Len(abis') = Len(abis)
                /\ \E i \in DOMAIN abis :
                      /\ abis[i].abi = Denoted(last.abi)
                      /\ abis[i].updated_at = clock - 1
                      /\ abis'[i].abi = Denoted(last'.abi)
                      /\ abis'[i].source = last'.source
                      /\ abis'[i].updated_at = clock
                      /\ abis'[i].created_at = abis[i].created_at]_vars

\* a get under an upper-case spelling returned the record stored under the folded key
C21_Witness ==
    /\ last.op = "get"
    /\ last.address = "0xAB"
    /\ last.network = " Sepolia "
    /\ last.abi = AbiArgList(AbiToken)
    /\ Len(abis) = 1
    /\ abis[1].address = "0xab"
    /\ abis[1].network = "sepolia"

----------------------------------------------------------------------------
(* ABI resolution used by one caller at a time (specification SpecResolve): *)
(* blockchain_service._resolve_abi, the resolution of the /call route, the  *)
(* /abi route and abi_service.get_or_fetch_abi (run_audit's resolver).      *)
(* Every call runs to completion and the clock advances between calls;      *)
(* last records the call's inputs and what it produced.                      *)

\* Python truthiness of an option value, as "if abi_inline:" tests it
Truthy(arg) ==
    CASE arg.t = "none" -> FALSE
      [] arg.t = "list" -> arg.list # <<>>
      [] arg.t = "str" -> arg.text # ""
      [] OTHER -> TRUE

\* the files of the deployment: Path(p).exists() and json.loads(p.read_text())
AbiFile == "/abi/vault.json"
MissingFile == "/abi/missing.json"
FileExists(p) == p = AbiFile
ReadAbiFile(p) == AbiVault

ErrNoFile == "ABI no encontrado en abi_path"
ErrUnresolved == "No se pudo resolver ABI (ni inline, ni archivo, ni Etherscan/DB)."
ErrJson == "JSONDecodeError"

\* what the remote registry answers to a request: an error, or a list
RemoteOutcomes == {[ok |-> FALSE, abi |-> <<>>]} \cup {[ok |-> TRUE, abi |-> a] : a \in RemoteAbis}

\* fetch_abi_from_etherscan(address, network): the fetched list, or the error raised
FetchAbi(address, remote) ==
    IF NormAddr(address) = Invalid THEN [ok |-> FALSE, err |-> ErrAddr, abi |-> <<>>]
    ELSE IF ~remote.ok THEN [ok |-> FALSE, err |-> ErrFetch, abi |-> <<>>]
    ELSE [ok |-> TRUE, err |-> "", abi |-> remote.abi]

\* results of a resolution: the definition returned (an abi value), where it
\* came from, whether the remote registry was asked, and the store afterwards
Resolved(abi, from, asked, store) ==
    [ok |-> TRUE, abi |-> abi, from |-> from, asked |-> asked, err |-> "", store |-> store]
Raised(err, asked, store) ==
    [ok |-> FALSE, abi |-> AbiArgNone, from |-> "", asked |-> asked, err |-> err, store |-> store]

\* the fetched list is returned but not saved
GetOrFetchRecord_NoSave(store, address, network, remote, now) ==
    LET rec == FindRec(store, CacheKey(address, NormNet(network)))
        fresh == FetchAbi(address, remote)
    IN  IF NormAddr(address) = Invalid THEN Raised(ErrAddr, FALSE, store)
        ELSE IF rec # 0 THEN Resolved(AbiArgList(store[rec].abi), store[rec].source, FALSE, store)
        ELSE IF ~fresh.ok THEN Raised(fresh.err, TRUE, store)
        ELSE Resolved(AbiArgList(fresh.abi), "etherscan", TRUE, store)

\* abi_service.get_or_fetch_record: the cached record, or fetch + save_abi
GetOrFetchRecord(store, address, network, remote, now) ==
    LET nw == NormNet(network)
        rec == FindRec(store, CacheKey(address, nw))
        fresh == FetchAbi(address, remote)
        saved == SaveAbi(store, address, AbiArgList(fresh.abi), nw, "etherscan", now)
    IN  IF NormAddr(address) = Invalid THEN Raised(ErrAddr, FALSE, store)
        ELSE IF rec # 0 THEN Resolved(AbiArgList(store[rec].abi), store[rec].source, FALSE, store)
        ELSE IF ~fresh.ok THEN Raised(fresh.err, TRUE, store)
        ELSE IF ~saved.ok THEN Raised(saved.err, TRUE, store)
        ELSE Resolved(AbiArgList(fresh.abi), "etherscan", TRUE, saved.store)

\* the refresh is skipped when the cache already has a record
ForceRefresh_CacheFirst(store, address, network, remote, now) ==
    GetOrFetchRecord(store, address, network, remote, now)

\* the force_refresh strategy: fetch_abi_from_etherscan, save_abi with source
\* "etherscan", return rec.abi
ForceRefresh(store, address, network, remote, now) ==
    LET fresh == FetchAbi(address, remote)
        forced == SaveAbi(store, address, AbiArgList(fresh.abi), network, "etherscan", now)
    IN  IF ~fresh.ok THEN Raised(fresh.err, NormAddr(address) # Invalid, store)
        ELSE IF ~forced.ok THEN Raised(forced.err, TRUE, store)
        ELSE Resolved(AbiArgList(fresh.abi), "etherscan", TRUE, forced.store)

\* blockchain_service._resolve_abi(contract_address, abi_inline, abi_path,
\* network, force_refresh, cache_manual); envPath is CONTRACT_ABI_PATH ("" unset)
ResolveAbi(store, address, inline, path, network, force, cacheManual, envPath, remote, now) ==
    LET parsed == IF inline.t = "str" THEN JsonLoads(inline.text) ELSE inline
        manual == SaveAbi(store, address, parsed, network, "manual", now)
        rec == FindRec(store, CacheKey(address, network))
        got == GetOrFetchRecord(store, address, network, remote, now)
    IN  IF inline.t # "none"                                        \* lines 65-69
        THEN IF parsed.t = "error" THEN Raised(ErrJson, FALSE, store)
             ELSE IF ~cacheManual THEN Resolved(parsed, "inline", FALSE, store)
             ELSE IF ~manual.ok THEN Raised(manual.err, FALSE, store)
             ELSE Resolved(parsed, "inline", FALSE, manual.store)
        ELSE IF path # ""                                           \* lines 71-75
        THEN IF ~FileExists(path) THEN Raised(ErrNoFile, FALSE, store)
             ELSE Resolved(AbiArgList(ReadAbiFile(path)), "file", FALSE, store)
        ELSE IF force                                               \* lines 77-80
        THEN ForceRefresh(store, address, network, remote, now)
        ELSE IF NormAddr(address) = Invalid THEN Raised(ErrAddr, FALSE, store)
        ELSE IF rec # 0                                             \* lines 82-84
        THEN Resolved(AbiArgList(store[rec].abi), store[rec].source, FALSE, store)
        ELSE IF ~got.ok THEN got                                    \* lines 86-88
        ELSE IF got.abi.list # <<>> THEN got
        ELSE IF envPath # "" /\ FileExists(envPath)                 \* lines 91-93
        THEN Resolved(AbiArgList(ReadAbiFile(envPath)), "file", TRUE, got.store)
        ELSE Raised(ErrUnresolved, TRUE, got.store)                 \* line 95

\* the resolution of POST /api/blockchain/call (call_contract lines 318-359);
\* bodyPath is the request's abi_path ("" absent), envPath CONTRACT_ABI_PATH
\* ("" unset, so the built-in default path applies, which names no file here)
CallResolve(store, address, inline, bodyPath, network, force, cacheManual, envPath, remote, now) ==
    LET abiPath == IF bodyPath # "" THEN bodyPath
                   ELSE IF envPath # "" THEN envPath ELSE "/app/app/abi/Contract.json"
        nw == NormNet(network)
        parsed == IF inline.t = "str" THEN JsonLoads(inline.text) ELSE inline
        manual == SaveAbi(store, address, parsed, nw, "manual", now)
        fileAbi == AbiArgList(ReadAbiFile(abiPath))
        filed == SaveAbi(store, address, fileAbi, nw, "manual", now)
    IN  IF Truthy(inline)                                           \* lines 338-342
        THEN IF parsed.t = "error" THEN Raised(ErrJson, FALSE, store)
             ELSE IF ~cacheManual THEN Resolved(parsed, "inline", FALSE, store)
             ELSE IF ~manual.ok THEN Raised(manual.err, FALSE, store)
             ELSE Resolved(parsed, "inline", FALSE, manual.store)
        ELSE IF force                                               \* lines 344-348
        THEN ForceRefresh(store, address, nw, remote, now)
        ELSE IF bodyPath # "" \/ FileExists(abiPath)                \* lines 350-354
        THEN IF ~FileExists(abiPath) THEN Raised(ErrNoFile, FALSE, store)
             ELSE IF ~cacheManual THEN Resolved(fileAbi, "file", FALSE, store)
             ELSE IF ~filed.ok THEN Raised(filed.err, FALSE, store)
             ELSE Resolved(fileAbi, "file", FALSE, filed.store)
        ELSE GetOrFetchRecord(store, address, nw, remote, now)      \* lines 356-359

ResAddrs == {"0xAB"}
ResNets == {"", "mainnet "}
InlineArgs == {AbiArgNone, AbiArgList(AbiVault), AbiArgList(AbiEmpty), AbiArgStr("[approve,name]")}
PathArgs == {"", AbiFile, MissingFile}
EnvPaths == {"", AbiFile}

\* what last keeps of a resolution: the options given, what the registry
\* answered if it was asked, and the outcome
ResolveRecord(op, address, nw, inline, path, force, cacheManual, remote, r) ==
    [op |-> op, address |-> address, network |-> nw, inline |-> inline, path |-> path,
     force |-> force, cache_manual |-> cacheManual,
     fresh |-> IF r.asked THEN remote ELSE [ok |-> FALSE, abi |-> <<>>],
     ok |-> r.ok, abi |-> r.abi, from |-> r.from, asked |-> r.asked, err |-> r.err]

\* blockchain_service._load_contract: the overrides of a call or a send are
\* resolved by _resolve_abi (lines 104-117); the network is normalised first
LoadContract(address, inline, path, network, force, cacheManual, envPath, remote) ==
    LET nw == Lower(Strip(IF network = "" THEN "sepolia" ELSE network))
        r == ResolveAbi(abis, address, inline, path, nw, force, cacheManual, envPath, remote, clock)
    IN
    /\ clock <= MaxCalls
    /\ abis' = r.store
    /\ last' = ResolveRecord("resolve", address, nw, inline, path, force, cacheManual,
                              remote, r)
    /\ clock' = clock + 1
    /\ UNCHANGED <<jobs, audits, queue, wk, web, txs>>

\* POST /api/blockchain/call up to the resolved definition (lines 312-359);
\* the read-only call that follows changes no state
CallContract(address, inline, bodyPath, network, force, cacheManual, envPath, remote) ==
    LET nw == Lower(Strip(IF network = "" THEN "sepolia" ELSE network))
        r == CallResolve(abis, address, inline, bodyPath, nw, force, cacheManual, envPath,
                         remote, clock)
    IN
    /\ clock <= MaxCalls
    /\ \/ /\ abis' = r.store
          /\ last' = ResolveRecord("call", address, nw, inline, bodyPath, force, cacheManual,
                                   remote, r)
       \/ /\ UNCHANGED abis                                          \* _make_w3 raises
          /\ last' = ResolveRecord("call", address, nw, inline, bodyPath, force, cacheManual,
                                   remote, Raised(ErrWeb3, FALSE, abis))
    /\ clock' = clock + 1
    /\ UNCHANGED <<jobs, audits, queue, wk, web, txs>>

NextResolve ==
    \/ \E a \in ResAddrs, i \in InlineArgs, p \in PathArgs, n \in ResNets, f \in BOOLEAN,
          cm \in BOOLEAN, e \in EnvPaths, rem \in RemoteOutcomes :
          LoadContract(a, i, p, n, f, cm, e, rem)
    \/ \E a \in ResAddrs, i \in InlineArgs, p \in PathArgs, n \in ResNets, f \in BOOLEAN,
          cm \in BOOLEAN, e \in EnvPaths, rem \in RemoteOutcomes :
          CallContract(a, i, p, n, f, cm, e, rem)
    \/ \E a \in ResAddrs, n \in ResNets, abi \in {AbiArgList(AbiEmpty), AbiArgList(AbiToken)} :
          clock <= MaxCalls /\ CacheSave(a, n, abi, "manual")
    \/ \E a \in ResAddrs, n \in ResNets : clock <= MaxCalls /\ CacheForceRefresh(a, n)
    \/ \E a \in ResAddrs, n \in ResNets : clock <= MaxCalls /\ CacheGetOrFetch(a, n)

SpecResolve == Init /\ [][NextResolve]_vars

----------------------------------------------------------------------------
(* Properties of the resolution order (specification SpecResolve) *)

\* a step that is a resolution by _resolve_abi or by the /call route, other
\* than one that stopped at the node connection
IsResolution(rec) == rec.op \in {"resolve", "call"} /\ rec.err # ErrWeb3

\* C14: given an inline definition and a populated cache entry for the same
\* (address, network), resolution returns the inline definition, never the
\* cached one, asks the remote registry nothing and, unless cache_manual is
\* set, leaves the cache unchanged.
C14_InlineBeatsCache ==
    [][(clock' # clock /\ IsResolution(last')) =>
          LET key == CacheKey(last'.address, last'.network) IN
          (last'.inline.t # "none" /\ \E i \in RowsOf(abis, key) : abis[i].abi # <<>>) =>
              /\ last'.ok
              /\ last'.from = "inline"
              /\ last'.abi.list = Denoted(last'.inline)
              /\ ~last'.asked
              /\ ~last'.cache_manual => abis' = abis]_vars

\* C15: with force_refresh set and neither an inline definition nor a file path
\* given, resolution asks the remote registry even when a cache record exists,
\* returns the fetched definition and leaves the record of (address, network)
\* holding it with source "etherscan".
C15_ForceRefreshBypassesCache ==
    [][(clock' # clock /\ IsResolution(last')) =>
          LET key == CacheKey(last'.address, last'.network) IN
          (last'.force /\ last'.inline.t = "none" /\ last'.path = "") =>
              /\ last'.asked
              /\ last'.fresh.ok =>
                    /\ last'.ok
                    /\ last'.abi = AbiArgList(last'.fresh.abi)
                    /\ Cardinality(RowsOf(abis', key)) = 1
                    /\ \A i \in RowsOf(abis', key) :
                          /\ abis'[i].abi = last'.fresh.abi
                          /\ abis'[i].source = "etherscan"
                          /\ abis'[i].updated_at = clock
              /\ ~last'.fresh.ok => ~last'.ok /\ abis' = abis]_vars

\* a forced resolution over a record saved by hand: the record now holds the fetched list
C15_Witness ==
    /\ last.op = "resolve"
    /\ last.force
    /\ last.ok
    /\ last.fresh.ok
    /\ last.abi = AbiArgList(AbiToken)
    /\ Len(abis) = 1
    /\ abis[1].source = "etherscan"
    /\ abis[1].abi = AbiToken
    /\ abis[1].updated_at > abis[1].created_at

\* a resolution with no inline definition, no file path and no force_refresh
PlainResolution(rec) ==
    rec.op = "resolve" /\ rec.inline.t = "none" /\ rec.path = "" /\ ~rec.force

\* C16: when a cache record exists and neither inline, file path nor
\* force_refresh is given, resolution returns the stored definition as it is,
\* an empty one included, asks the remote registry nothing and writes nothing
\* to the cache.
C16_CacheHitAsIs ==
    [][clock' # clock =>
          LET rec == FindRec(abis, CacheKey(last'.address, last'.network)) IN
          /\ (PlainResolution(last') /\ rec # 0) =>
                /\ last'.ok
                /\ last'.abi = AbiArgList(abis[rec].abi)
                /\ ~last'.asked
                /\ abis' = abis
          /\ (last'.op = "get_or_fetch" /\ rec # 0) =>
                /\ last'.err = ""
                /\ last'.source = "cache"
                /\ last'.abi = AbiArgList(abis[rec].abi)
                /\ abis' = abis]_vars

\* the list the registry answered
FetchedList(rec) == IF rec.op = "resolve" THEN rec.fresh.abi ELSE rec.abi.list

\* a resolution that found no record, asked the registry and got a definition
MissFetched(rec, store) ==
    /\ RowsOf(store, CacheKey(rec.address, rec.network)) = {}
    /\ \/ PlainResolution(rec) /\ rec.fresh.ok
       \/ rec.op = "get_or_fetch" /\ rec.err = "" /\ rec.source = "etherscan"
    /\ FetchedList(rec) # <<>>

\* C17: when no cache record exists and the remote fetch succeeds with a
\* definition, resolution returns the fetched definition and persists it with source "etherscan", and
\* the resolution of the same (address, network) that follows, without
\* force_refresh, is served from the cache with no second remote fetch.
C17_FetchedThenServed ==
    [][clock' # clock =>
          /\ (last'.op \in {"resolve", "get_or_fetch"} /\ MissFetched(last', abis)) =>
                LET key == CacheKey(last'.address, last'.network) IN
                /\ last'.abi = AbiArgList(FetchedList(last'))
                /\ Cardinality(RowsOf(abis', key)) = 1
                /\ \A i \in RowsOf(abis', key) :
                      abis'[i].abi = FetchedList(last') /\ abis'[i].source = "etherscan"
          /\ (/\ last.op \in {"resolve", "get_or_fetch"}
              /\ last'.op = last.op
              /\ CacheKey(last'.address, last'.network) = CacheKey(last.address, last.network)
              /\ last.op = "resolve" => PlainResolution(last')
              /\ \E i \in DOMAIN abis : abis[i].updated_at = clock - 1
              /\ IF last.op = "resolve"
                 THEN PlainResolution(last) /\ last.asked /\ last.fresh.ok
                 ELSE last.err = "" /\ last.source = "etherscan"
              /\ FetchedList(last) # <<>>) =>
                /\ last'.abi = AbiArgList(FetchedList(last))
                /\ IF last'.op = "resolve" THEN ~last'.asked ELSE last'.source = "cache"
                /\ abis' = abis]_vars

\* a fallback fetch stored the list at the first call; the second call got it from the cache
C17_Witness ==
    /\ last.op = "resolve"
    /\ PlainResolution(last)
    /\ last.ok
    /\ ~last.asked
    /\ last.from = "etherscan"
    /\ last.abi = AbiArgList(AbiToken)
    /\ clock = 3
    /\ Len(abis) = 1
    /\ abis[1].created_at = 1
    /\ abis[1].updated_at = 1

\* C18: a file path that names no existing resource does not make resolution
\* fail at the file step: resolution goes on with the later strategies
\* (force_refresh fetch, cache lookup, fallback fetch).
C18_MissingFileFallsThrough ==
    [][(clock' # clock /\ IsResolution(last')) =>
          LET rec == FindRec(abis, CacheKey(last'.address, last'.network)) IN
          (last'.inline.t = "none" /\ last'.path # "" /\ ~FileExists(last'.path)) =>
              /\ last'.err # ErrNoFile
              /\ last'.force => last'.asked
              /\ (~last'.force /\ rec # 0) =>
                     last'.ok /\ last'.abi = AbiArgList(abis[rec].abi)]_vars

\* C19: with cache_manual set, a definition resolved from inline or from a file
\* path is also saved to the cache of (address, network) with source "manual";
\* without cache_manual, resolving from inline or a file path leaves the cache
\* unchanged.
C19_CacheManualPersists ==
    [][(clock' # clock /\ IsResolution(last')) =>
          LET key == CacheKey(last'.address, last'.network) IN
          (/\ last'.ok
           /\ last'.from \in {"inline", "file"}
           /\ last'.inline.t # "none" \/ last'.path # "") =>
              IF last'.cache_manual
              THEN /\ Cardinality(RowsOf(abis', key)) = 1
                   /\ \A i \in RowsOf(abis', key) :
                         /\ abis'[i].abi = last'.abi.list
                         /\ abis'[i].source = "manual"
                         /\ abis'[i].updated_at = clock
              ELSE abis' = abis]_vars

\* C20: with no inline definition and no file, no cache record for
\* (address, network) and a remote fetch that fails or yields no definition,
\* resolution fails with an error and the cache is left unchanged: no record is
\* inserted for the key.
C20_UnresolvedLeavesCache ==
    [][clock' # clock =>
          LET miss == RowsOf(abis, CacheKey(last'.address, last'.network)) = {} IN
          /\ (/\ last'.op = "resolve"
              /\ last'.inline.t = "none"
              /\ last'.path = ""
              /\ miss
              /\ last'.asked
              /\ ~last'.fresh.ok \/ last'.fresh.abi = <<>>) =>
                ~last'.ok /\ abis' = abis
          /\ (/\ last'.op = "get_or_fetch"
              /\ miss
              /\ last'.source = "etherscan"
              /\ last'.err # "" \/ last'.abi.list = <<>>) =>
                abis' = abis]_vars

----------------------------------------------------------------------------
(* POST /api/audit/start step by step (specification SpecWeb): the web     *)
(* layer handles one request at a time; its commits and the hand-over to   *)
(* the queue are separate steps, and the workers run between them.         *)

\* the JSON body: a key that is absent is Null, network and force_refresh are
\* given as their text ("" for an absent network)
StartBody(address, alt, network, force) ==
    [address |-> address, contract_address |-> alt, network |-> network,
     force_refresh |-> force]

StartBodies ==
    {StartBody(a, c, n, f) : a \in {Null, Some(" "), Some("0xAB")},
                             c \in {Null, Some(""), Some(" 0xAB ")},
                             n \in {"", " Sepolia "}, f \in {"False", "yes"}}

\* data.get(k) or ...: None and "" are passed over, any other text is taken
Given(v) == IF v = Null THEN "" ELSE Val(v)

\* the address is taken unstripped
StartAddress_NoStrip(body) ==
    IF Given(body.address) # "" THEN Given(body.address) ELSE Given(body.contract_address)

\* line 63: (data.get("address") or data.get("contract_address") or "").strip()
StartAddress(body) ==
    Strip(IF Given(body.address) # "" THEN Given(body.address)
          ELSE Given(body.contract_address))

\* line 64: (data.get("network") or "sepolia").strip().lower()
StartNetwork(body) == Lower(Strip(IF body.network = "" THEN "sepolia" ELSE body.network))

\* lines 62-82: the body is read; without an address the answer is 400,
\* otherwise the Job is added and committed
StartRequest(body) ==
    LET address == StartAddress(body)
        network == StartNetwork(body)
        force == AsBool(body.force_refresh)
    IN
    /\ web.pc = "idle"
    /\ IF address = ""
       THEN /\ web' = [IdleWeb EXCEPT !.resp = [code |-> 400, ok |-> FALSE,
                                                error |-> "Falta 'address'"]]
            /\ UNCHANGED jobs
       ELSE /\ Len(jobs) < MaxJobs
            /\ jobs' = Append(jobs, NewJob([address |-> address, network |-> network,
                                            force_refresh |-> force]))
            /\ web' = [IdleWeb EXCEPT !.pc = "enqueue", !.job = Len(jobs) + 1,
                                      !.address = address, !.network = network,
                                      !.force = force]
    /\ UNCHANGED <<audits, abis, queue, wk, clock, last, txs>>

\* how many arguments the enqueue function takes: run_audit.delay takes the
\* four of line 86, a stand-in taking three gets the call of line 88
DelayArities == {3, 4}

\* the audit.run message of line 86 (four arguments) or line 88 (three: the
\* worker then runs with force_refresh at its default)
AuditMessage(jobId, address, network, force, arity) ==
    [task |-> "audit.run", job_id |-> jobId, address |-> address, network |-> network,
     force_refresh |-> IF arity = 4 THEN PyBool(force) ELSE "False", deliveries |-> 0]

\* lines 85-88: the message is handed to the queue, or the broker cannot be
\* reached and the exception leaves the route (500)
StartEnqueue(arity) ==
    /\ web.pc = "enqueue"
    /\ \/ /\ queue' = Append(queue, AuditMessage(web.job, web.address, web.network,
                                                  web.force, arity))
          /\ web' = [web EXCEPT !.pc = "record", !.task_id = Len(queue) + 1]
       \/ /\ web' = [IdleWeb EXCEPT !.resp = [code |-> 500]]
          /\ UNCHANGED queue
    /\ UNCHANGED <<jobs, audits, abis, wk, clock, last, txs>>

\* lines 90-93: the correlation id is written to the Job and committed (the
\* UPDATE carries the changed column only), then 202
StartRecord ==
    /\ web.pc = "record"
    /\ jobs' = [jobs EXCEPT ![web.job].task_id = Some(web.task_id)]
    /\ web' = [IdleWeb EXCEPT !.resp = [code |-> 202, ok |-> TRUE, job_id |-> web.job,
                                       task_id |-> web.task_id, status |-> "queued"]]
    /\ UNCHANGED <<audits, abis, queue, wk, clock, last, txs>>

NextWeb ==
    \/ \E b \in StartBodies : StartRequest(b)
    \/ \E n \in DelayArities : StartEnqueue(n)
    \/ StartRecord
    \/ \E w \in Workers, m \in 1..MaxJobs : RunAuditBegin(w, m)
    \/ \E w \in Workers : Resolve(w)
    \/ \E w \in Workers : SaveRead(w)
    \/ \E w \in Workers : SaveCommit(w)
    \/ \E w \in Workers : Extract(w)
    \/ \E w \in Workers : JobDone(w)
    \/ \E w \in Workers : HandlerAudit(w)
    \/ \E w \in Workers : HandlerJob(w)

SpecWeb == Init /\ [][NextWeb]_vars

----------------------------------------------------------------------------
(* Properties of the enqueueing route (specification SpecWeb) *)

\* a task message for Job j has been handed to the queue
Enqueued(j) == \E m \in DOMAIN queue : queue[m].job_id = j

\* C25: once a Job's message has been handed to the queue the Job row is
\* changed only by a worker executing that task: every step that changes the
\* row of an enqueued Job is a step of a worker that holds this Job, never a
\* step of the web layer.
C25_OnlyWorkerWritesJob ==
    [][\A j \in DOMAIN jobs :
          (Enqueued(j) /\ jobs'[j] # jobs[j]) =>
             /\ web' = web
             /\ \E w \in Workers : wk[w].job = j /\ wk'[w] # wk[w]]_vars

\* the value under a key is absent, empty or whitespace only
Blank(v) == IF v = Null THEN TRUE ELSE Val(v) \in {"", " "}

\* C26: a start request that carries a non-empty address (under either key)
\* adds exactly one Job, queued, with params {address, network,
\* force_refresh}; the route then hands over exactly one audit.run message
\* with that Job's id (whatever the arity of the enqueue function), then
\* writes the correlation id to the Job's task_id and answers 202 with
\* status queued and the job id.
C26_StartAccepted ==
    [][/\ \A b \in StartBodies :
             (web' # web /\ StartRequest(b)
                         /\ ~(Blank(b.address) /\ Blank(b.contract_address))) =>
                /\ Len(jobs') = Len(jobs) + 1
                /\ jobs'[Len(jobs')].status = "queued"
                /\ jobs'[Len(jobs')].params =
                      [address |-> "0xAB", network |-> "sepolia",
                       force_refresh |-> (b.force_refresh = "yes")]
                /\ web'.pc = "enqueue"
                /\ web'.job = Len(jobs')
       /\ (web.pc = "enqueue" /\ web' # web) =>
             /\ Len(queue') = Len(queue) + 1
             /\ queue'[Len(queue')].task = "audit.run"
             /\ queue'[Len(queue')].job_id = web.job
             /\ Len(jobs') = Len(jobs)
             /\ web'.pc = "record"
       /\ (web.pc = "record" /\ web' # web) =>
             /\ jobs'[web.job].task_id = Some(web.task_id)
             /\ queue' = queue
             /\ Len(jobs') = Len(jobs)
             /\ web'.resp.code = 202
             /\ web'.resp.status = "queued"
             /\ web'.resp.job_id = web.job]_vars

\* C27: a start request without an address (absent, empty or whitespace
\* only under both keys) is answered 400 and changes nothing: no Job is
\* added, no message is handed to the queue.
C27_NoAddressRejected ==
    [][web' # web =>
          \A b \in StartBodies :
             (StartRequest(b) /\ Blank(b.address) /\ Blank(b.contract_address)) =>
                /\ web'.resp.code = 400
                /\ web'.pc = "idle"
                /\ jobs' = jobs
                /\ queue' = queue
                /\ audits' = audits]_vars

\* a request was rejected after an earlier one had been accepted and enqueued
C27_Witness ==
    /\ web.pc = "idle"
    /\ web.resp.code = 400
    /\ Len(jobs) = 1
    /\ Len(queue) = 1

\* C40: no Job stays queued without a task message: when the hand-over to
\* the queue fails after the Job row was committed, the route does not
\* leave the Job persisted as queued.
C40_NoOrphanQueuedJob ==
    web.pc = "idle" =>
       \A j \in DOMAIN jobs : jobs[j].status = "queued" => Enqueued(j)

----------------------------------------------------------------------------
(* POST /api/blockchain/send and the task blockchain.send_and_wait         *)
(* (specification SpecSend).  The route's handler is one step: it has one  *)
(* commit before the hand-over to the queue.  The task is cut at its       *)
(* broadcast and at its commits.                                           *)

\* positional parameters of send_and_wait (job_id, fn_name, args, value) and
\* positional arguments of the route's send_and_wait.delay(...) call
SendAndWaitParams == 4
SendRouteArgs == 5

\* int(value, 0) of a text: the number it spells, or the ValueError (Null)
ParseInt(text) ==
    CASE text = "10" -> Some(10)
      [] text = "0x10" -> Some(16)
      [] OTHER -> Null

\* the JSON body of a send request: the function name ("" when absent),
\* whether args is a list, the value as text
SendBodies ==
    {[function |-> f, args_is_list |-> l, value |-> v] :
        f \in {"", "deposit"}, l \in BOOLEAN, v \in {"0x10", "wei"}}

ErrEnqueue == "No se pudo encolar la tarea"

\* blockchain_routes.send_tx lines 430-477.  Task.delay checks the arguments
\* against the signature of the task before it publishes: with more
\* arguments than send_and_wait has parameters it raises TypeError, after
\* the Job row was committed; the except block rolls back and answers 500
SendTxRoute(body) ==
    /\ web.pc = "idle"
    /\ IF body.function = "" \/ ~body.args_is_list \/ ParseInt(body.value) = Null
       THEN /\ web' = [IdleWeb EXCEPT !.resp = [code |-> 400, ok |-> FALSE]]
            /\ UNCHANGED <<jobs, queue>>
       ELSE /\ Len(jobs) < MaxJobs
            /\ IF SendRouteArgs > SendAndWaitParams
               THEN /\ jobs' = Append(jobs, NewJob(body))
                    /\ web' = [IdleWeb EXCEPT !.resp = [code |-> 500, ok |-> FALSE,
                                                        error |-> ErrEnqueue]]
                    /\ UNCHANGED queue
               ELSE /\ jobs' = Append(jobs, [NewJob(body) EXCEPT
                                                !.task_id = Some(Len(queue) + 1)])
                    /\ queue' = Append(queue,
                          [task |-> "blockchain.send_and_wait", job_id |-> Len(jobs) + 1,
                           fn_name |-> body.function, value |-> Val(ParseInt(body.value)),
                           deliveries |-> 0])
                    /\ web' = [IdleWeb EXCEPT !.resp = [code |-> 202, ok |-> TRUE,
                                                        job_id |-> Len(jobs) + 1,
                                                        status |-> "queued"]]
    /\ UNCHANGED <<audits, abis, wk, clock, last, txs>>

\* blockchain.send_and_wait is registered under its name: a client of the
\* broker sends it with (job_id, fn_name, args, value), for a Job that
\* exists or for an id without a row
PublishSend(jobId) ==
    /\ Len(queue) < MaxJobs
    /\ queue' = Append(queue,
          [task |-> "blockchain.send_and_wait", job_id |-> jobId, fn_name |-> "deposit",
           value |-> 0, deliveries |-> 0])
    /\ UNCHANGED <<jobs, audits, abis, wk, clock, last, web, txs>>

ErrKey == "PRIVATE_KEY no configurada"
ErrGas == "No se pudo estimar gas"
ErrTimeout == "Transaction is not in the chain after 600 seconds"

\* an exception inside send_and_wait's try block
SendFail(w, err) == SetWk(w, [wk[w] EXCEPT !.pc = "send_handler", !.err = err])

\* lines 67-70: the Job becomes pending and keeps the transaction hash
SendPendingWrite(job, tx) ==
    [job EXCEPT !.status = "pending", !.result = [kind |-> "tx", tx_hash |-> tx]]

\* lines 77-80: the Job becomes done and keeps the hash and the receipt
SendDoneWrite(job, tx) ==
    [job EXCEPT !.status = "done",
                !.result = [kind |-> "receipt", tx_hash |-> tx, receipt |-> tx]]

\* the except block re-raises without writing the Job
SendErrorWrite_Skip(job, err) == job

\* lines 87-90: the Job becomes error and keeps the text of the exception
SendErrorWrite(job, err) ==
    [job EXCEPT !.status = "error", !.result = [kind |-> "error", error |-> err]]

\* lines 59-61: the worker takes a delivery and loads the Job
SendBegin(w, m) ==
    /\ FirstIdle(w)
    /\ m \in DOMAIN queue
    /\ queue[m].task = "blockchain.send_and_wait"
    /\ SumDeliveries(queue) < MaxDeliveries
    /\ queue' = [queue EXCEPT ![m].deliveries = @ + 1]
    /\ IF LoadJob(jobs, queue[m].job_id) = 0
       THEN /\ SetWk(w, IdleWk)
            /\ last' = [op |-> "send_and_wait", kind |-> "notfound", job |-> queue[m].job_id]
       ELSE /\ SetWk(w, [IdleWk EXCEPT !.pc = "send", !.job = queue[m].job_id])
            /\ UNCHANGED last
    /\ UNCHANGED <<jobs, audits, abis, clock, web, txs>>

\* line 65, send_function: it raises before the broadcast, or the signed
\* transaction goes out (blockchain_service line 194) and its hash is returned
SendBroadcast(w) ==
    /\ wk[w].pc = "send"
    /\ \/ /\ \E err \in {ErrKey, ErrGas} : SendFail(w, err)
          /\ UNCHANGED txs
       \/ /\ txs' = Append(txs, [job |-> wk[w].job])
          /\ SetWk(w, [wk[w] EXCEPT !.pc = "pending", !.tx = Len(txs) + 1])
    /\ UNCHANGED <<jobs, audits, abis, queue, clock, last, web>>

\* lines 67-70: the commit of the pending Job
SendPending(w) ==
    /\ wk[w].pc = "pending"
    /\ \/ /\ jobs' = [jobs EXCEPT ![wk[w].job] = SendPendingWrite(@, wk[w].tx)]
          /\ SetWk(w, [wk[w] EXCEPT !.pc = "wait"])
       \/ /\ SendFail(w, ErrDb)
          /\ UNCHANGED jobs
    /\ UNCHANGED <<audits, abis, queue, clock, last, web, txs>>

\* lines 73-83: the wait for the receipt (at most 600 seconds), then the
\* commit of the done Job and the return; or the wait times out, the node
\* cannot be reached, or the commit fails
SendWait(w) ==
    /\ wk[w].pc = "wait"
    /\ \/ /\ jobs' = [jobs EXCEPT ![wk[w].job] = SendDoneWrite(@, wk[w].tx)]
          /\ SetWk(w, IdleWk)
          /\ last' = [op |-> "send_and_wait", kind |-> "ok", job |-> wk[w].job,
                      tx_hash |-> wk[w].tx, status |-> "mined"]
       \/ /\ \E err \in {ErrTimeout, ErrWeb3, ErrDb} : SendFail(w, err)
          /\ UNCHANGED <<jobs, last>>
    /\ UNCHANGED <<audits, abis, queue, clock, web, txs>>

\* lines 85-92: the except block writes the Job and re-raises
SendHandler(w) ==
    /\ wk[w].pc = "send_handler"
    /\ jobs' = [jobs EXCEPT ![wk[w].job] = SendErrorWrite(@, wk[w].err)]
    /\ SetWk(w, IdleWk)
    /\ last' = [op |-> "send_and_wait", kind |-> "raise", job |-> wk[w].job,
                error |-> wk[w].err]
    /\ UNCHANGED <<audits, abis, queue, clock, web, txs>>

NextSend ==
    \/ \E b \in SendBodies : SendTxRoute(b)
    \/ \E j \in 1..(MaxJobs + 1) : PublishSend(j)
    \/ \E w \in Workers, m \in 1..MaxJobs : SendBegin(w, m)
    \/ \E w \in Workers : SendBroadcast(w)
    \/ \E w \in Workers : SendPending(w)
    \/ \E w \in Workers : SendWait(w)
    \/ \E w \in Workers : SendHandler(w)

SpecSend == Init /\ [][NextSend]_vars

\* a worker that has taken a delivery keeps executing it: every step of the
\* task body ends (the wait for the receipt ends after 600 seconds at most)
SpecSendLive ==
    /\ SpecSend
    /\ \A w \in Workers :
          WF_vars(SendBroadcast(w) \/ SendPending(w) \/ SendWait(w) \/ SendHandler(w))

TxsOf(j) == {t \in DOMAIN txs : txs[t].job = j}

\* C39: for each Job, send_and_wait broadcasts at most one transaction, also
\* when its message is delivered more than once or again after a failure
\* that followed the broadcast; so the hash of a done Job is the one
\* recorded when the Job became pending.
C39_OneBroadcastPerJob ==
    \A j \in DOMAIN jobs : Cardinality(TxsOf(j)) <= 1

\* C32: a Job that the send route has stored is handed to send_and_wait: the
\* route has recorded the id of its task message and answered 202, so the
\* Job can leave queued.
C32_SendJobEnqueued ==
    \A j \in DOMAIN jobs :
        jobs[j].params \in SendBodies => jobs[j].task_id # Null

----------------------------------------------------------------------------
(* The scoring functions called on their own (specification SpecScore):    *)
(* they keep nothing between calls, so a behaviour is one call; last       *)
(* records the arguments and the result.                                   *)

\* _level_from_score(score) for a score of ai_service.risk_score
LevelCall(score) ==
    /\ last.op = "none"
    /\ last' = [op |-> "level", score |-> score, level |-> LevelFromScore(score)]
    /\ UNCHANGED <<jobs, audits, abis, queue, wk, clock, web, txs>>

\* Python floats a caller can pass: a finite number in tenths, a finite
\* number beyond the range of float32 (such as 1e39), inf, nan
Num(n) == [kind |-> "num", v |-> n]
Huge == [kind |-> "huge", v |-> 0]
Inf == [kind |-> "inf", v |-> 0]
NaN == [kind |-> "nan", v |-> 0]

FeatureValues == {Null, Some(Num(3)), Some(Num(-4)), Some(Num(80)), Some(Huge), Some(Inf),
                  Some(NaN)}

\* what the oracle answers for an input it accepts, in tenths (lower = more
\* anomalous); the isolation forest stays within [-1, 0), the interface of
\* the oracle does not
OracleOutputs == {-1000000, -200, -100, -10, -8, -5, -2, 0, 5, 100, 1000000}

ErrNotFinite == "Input X contains NaN or infinity or a value too large for dtype('float32')"

\* line 42, model.score_samples(X): the estimator validates X as an array of
\* finite float32 values and raises ValueError otherwise
ScoreSamples(f1, f2, out) ==
    IF f1.kind = "num" /\ f2.kind = "num"
    THEN [ok |-> TRUE, v |-> out, err |-> ""]
    ELSE [ok |-> FALSE, v |-> 0, err |-> ErrNotFinite]

\* exp(-0.1) and exp(-1) in ten-thousandths, and the exponent (in tenths)
\* from which exp(-x) is 0 in ten-thousandths
ExpTenth == 9048
ExpUnit == 3679
ExpCut == 200

\* the product of two numbers given in ten-thousandths, rounded
MulScaled(a, b) == (a * b + ScoreScale \div 2) \div ScoreScale

\* exp(-n/10) in ten-thousandths, n >= 0
RECURSIVE ExpNeg(_)
ExpNeg(n) ==
    IF n > ExpCut THEN 0
    ELSE IF n = 0 THEN ScoreScale
    ELSE IF n >= 10 THEN MulScaled(ExpNeg(n - 10), ExpUnit)
    ELSE MulScaled(ExpNeg(n - 1), ExpTenth)

\* the magnitude is returned as it is, in the unit of the score
Logistic_Unsquashed(s) == s * (ScoreScale \div 10)

\* lines 44 and 47: round(1 / (1 + np.exp(-score)), 4) for a score s in
\* tenths; np.exp overflows to inf without raising and 1 / (1 + inf) is 0.0
Logistic(s) ==
    LET e == ExpNeg(IF s >= 0 THEN s ELSE -s)
        den == ScoreScale + e
        num == IF s >= 0 THEN ScoreScale ELSE e
    IN  (2 * ScoreScale * num + den) \div (2 * den)

\* ai_service.risk_score lines 34-52: features.get(key, 0.0), float(), the
\* oracle, the negation, the squashing and the rounding
RiskScore(features, out) ==
    LET f1 == IF features.feature1 = Null THEN Num(0) ELSE Val(features.feature1)
        f2 == IF features.feature2 = Null THEN Num(0) ELSE Val(features.feature2)
        r == ScoreSamples(f1, f2, out)
    IN  IF r.ok
        THEN [ok |-> TRUE, risk_score |-> Logistic(-r.v), raw |-> -r.v,
              features_used |-> [feature1 |-> f1, feature2 |-> f2],
              model |-> "IsolationForest", error |-> ""]
        ELSE [ok |-> FALSE, risk_score |-> 0, raw |-> 0,
              features_used |-> [feature1 |-> f1, feature2 |-> f2],
              model |-> "IsolationForest", error |-> r.err]

\* a call risk_score(features)
RiskScoreCall(features, out) ==
    /\ last.op = "none"
    /\ last' = [op |-> "risk_score", features |-> features, oracle |-> out,
                res |-> RiskScore(features, out)]
    /\ UNCHANGED <<jobs, audits, abis, queue, wk, clock, web, txs>>

\* an interface with the four metadata functions
AbiMeta == <<Fn("name", "view"), Fn("symbol", "view"), Fn("decimals", "view"),
             Fn("totalSupply", "view"), Fn("transfer", "nonpayable")>>

\* no function at all, an event that bears a trigger name
AbiEvents == <<Ev("burn")>>

\* the second trigger names, and an overloaded function
AbiFlags == <<Fn("mintTo", "nonpayable"), Fn("paused", "view"), Fn("getOwner", "view"),
              Fn("burn", "nonpayable"), Fn("transferFrom", "nonpayable"),
              Fn("transferFrom", "nonpayable")>>

\* AbiToken with two more functions: the same write ratio and flags
AbiToken2 == <<Fn("approve", "nonpayable"), Fn("name", "view"),
               Fn("transfer", "nonpayable"), Fn("symbol", "view")>>

ExtractAbis == {AbiToken, AbiVault, AbiMeta, AbiEvents, AbiFlags, AbiToken2}

\* what the chain can answer: some code or none, any of the metadata calls failing
ExtractProbes == {[code_len |-> n, failing |-> f] : n \in {0, 120},
                                                   f \in SUBSET SeqToSet(MetaKeys)}

\* run_audit lines 142-169 for the Audit an execution has just created: the
\* features, the level and the summary, and the row as the commit writes it
AuditBodyCall(abi, probe, score) ==
    LET feats == ExtractFeatures(abi, probe)
        level == LevelFromScore(score)
        summary == Summary("0xAB", "sepolia", feats)
    IN
    /\ last.op = "none"
    /\ last' = [op |-> "extract", abi |-> abi, probe |-> probe, feats |-> feats,
                audit |-> AuditDone(NewAudit("0xAB", "sepolia", clock), score, level,
                                    summary, feats, clock)]
    /\ UNCHANGED <<jobs, audits, abis, queue, wk, clock, web, txs>>

NextScore ==
    \/ \E score \in 0..ScoreScale : LevelCall(score)
    \/ \E abi \in ExtractAbis, probe \in ExtractProbes, score \in Scores :
          AuditBodyCall(abi, probe, score)
    \/ \E f1 \in FeatureValues, f2 \in FeatureValues, out \in OracleOutputs :
          RiskScoreCall([feature1 |-> f1, feature2 |-> f2], out)

SpecScore == Init /\ [][NextScore]_vars

\* C28: the level is high exactly for scores of 0.70 and more, medium
\* exactly for scores from 0.55 up to but not including 0.70, low exactly
\* for scores below 0.55; at the boundaries 0.7000 is high, 0.6999 medium,
\* 0.5500 medium and 0.5499 low.
C28_LevelThresholds ==
    last.op = "level" =>
       /\ last.level \in {"high", "medium", "low"}
       /\ last.level = "high" <=> last.score >= 7000
       /\ last.level = "medium" <=> (5500 <= last.score /\ last.score < 7000)
       /\ last.level = "low" <=> last.score < 5500
       /\ last.score = 7000 => last.level = "high"
       /\ last.score = 6999 => last.level = "medium"
       /\ last.score = 5500 => last.level = "medium"
       /\ last.score = 5499 => last.level = "low"

\* the level of the lowest medium score
C28_Witness ==
    /\ last.op = "level"
    /\ last.score = 5500
    /\ last.level = "medium"

\* C29: for every numeric two-dimensional input the scorer returns, without
\* raising, a result whose risk score lies in [0, 1].
C29_ScoreInUnitInterval ==
    last.op = "risk_score" =>
       /\ last.res.ok
       /\ 0 <= last.res.risk_score
       /\ last.res.risk_score <= ScoreScale

\* the value under a feature key is absent or a finite number the oracle accepts
Accepted(v) == IF v = Null THEN TRUE ELSE Val(v).kind = "num"

\* C29 as amended: the scorer returns exactly for the inputs the oracle
\* accepts (both features finite and within float32), and then the risk
\* score lies in [0, 1], is the squashing of the negated oracle output (at
\* least 0.5 exactly when that is not negative) and is reported with it;
\* for the other inputs the oracle's error leaves the scorer.
C29_AcceptedScoreInUnitInterval ==
    last.op = "risk_score" =>
       /\ last.res.ok <=> (Accepted(last.features.feature1) /\ Accepted(last.features.feature2))
       /\ last.res.ok =>
             /\ 0 <= last.res.risk_score
             /\ last.res.risk_score <= ScoreScale
             /\ last.res.raw = -last.oracle
             /\ last.res.risk_score >= ScoreScale \div 2 <=> last.res.raw >= 0
       /\ ~last.res.ok => last.res.error # ""

\* a magnitude so large that np.exp overflows: the score is 0.0
C29_Witness ==
    /\ last.op = "risk_score"
    /\ last.res.ok
    /\ last.oracle = 1000000
    /\ last.res.risk_score = 0
    /\ last.features.feature1 = Some(Num(3))

\* the interface declares a function of this name
Declares(abi, k) == \E i \in DOMAIN abi : abi[i].type = "function" /\ abi[i].name = k

\* C30: the metadata reads are best-effort one by one: whichever of the
\* calls fail or are absent from the interface, the feature vector holds
\* exactly the metadata keys that are declared and whose call succeeded, with
\* the values read; every other feature is what it is when no call fails;
\* and the Audit is written done with this vector.
C30_MetadataBestEffort ==
    last.op = "extract" =>
       LET feats == last.feats
           meta == SeqToSet(MetaKeys)
           clean == ExtractFeatures(last.abi, [last.probe EXCEPT !.failing = {}])
       IN  /\ \A k \in meta :
                 k \in DOMAIN feats <=> (Declares(last.abi, k) /\ k \notin last.probe.failing)
           /\ \A k \in DOMAIN feats \cap meta : feats[k] = OnChain(k)
           /\ DOMAIN feats \ meta = DOMAIN clean \ meta
           /\ \A k \in DOMAIN feats \ meta : feats[k] = clean[k]
           /\ last.audit.status = "done"
           /\ last.audit.features = Some(feats)
           /\ last.audit.finished_at # Null

\* name and symbol are declared, the call of symbol fails: name is kept,
\* symbol is left out, the Audit is done
C30_Witness ==
    /\ last.op = "extract"
    /\ last.abi = AbiMeta
    /\ last.probe.failing = {"symbol"}
    /\ "name" \in DOMAIN last.feats
    /\ "decimals" \in DOMAIN last.feats
    /\ "symbol" \notin DOMAIN last.feats
    /\ last.audit.status = "done"

----------------------------------------------------------------------------
(* Invalid addresses at the cache, under SpecCache *)

\* C37: a get or an upsert with a malformed or empty address fails with the
\* invalid-address error and leaves the store as it was: the same records
\* with the same definitions, provenance and timestamps.
C37_InvalidAddressNoEffect ==
    [][(clock' # clock /\ last'.op \in {"get", "save_abi"}
                       /\ NormAddr(last'.address) = Invalid) =>
          (abis' = abis /\ ~last'.saved /\ last'.err = ErrAddr)]_vars

----------------------------------------------------------------------------
(* The two resolvers compared, under SpecResolve *)

\* C36: for every combination of options and every state of the cache, the
\* shared resolver and the resolution of the call route take the definition
\* from the same strategy (the same origin, the registry asked by both or by
\* neither); with a file path and forceRefresh both given, both take the
\* file.  Stated for an inline definition that is absent or not empty.
C36_SamePriority ==
    [][\A a \in ResAddrs, i \in InlineArgs, p \in PathArgs, n \in ResNets, f \in BOOLEAN,
          cm \in BOOLEAN, e \in EnvPaths, rem \in RemoteOutcomes :
          (LoadContract(a, i, p, n, f, cm, e, rem) /\ (Truthy(i) \/ i = AbiArgNone)) =>
             LET c == CallResolve(abis, a, i, p, last'.network, f, cm, e, rem, clock) IN
             /\ (last'.ok /\ c.ok) => (last'.from = c.from /\ last'.asked = c.asked)
             /\ (p = AbiFile /\ f /\ i = AbiArgNone) =>
                   (last'.ok /\ c.ok /\ last'.from = "file" /\ c.from = "file")]_vars

----------------------------------------------------------------------------
(* The registry's answer and its parsing (specification SpecParse):        *)
(* abi_service.fetch_abi_from_etherscan from the decoded JSON body on, and *)
(* _parse_v2_result.  A behaviour is one fetch; last records the body and  *)
(* what the fetch returned or raised.                                      *)

\* values of data["result"]: absent, a text, a list of objects, or an object
\* with a list of objects under infoKey ("" for an object without such a key)
ResNone == [t |-> "none", text |-> "", items |-> <<>>, infoKey |-> ""]
ResStr(text) == [t |-> "str", text |-> text, items |-> <<>>, infoKey |-> ""]
ResList(items) == [t |-> "list", text |-> "", items |-> items, infoKey |-> ""]
ResDict(infoKey, items) == [t |-> "dict", text |-> "", items |-> items, infoKey |-> infoKey]

\* an object of the registry that carries the encoded definition under abiKey,
\* and a function descriptor (an object without such a key)
InfoObj(abiKey, text) == [abiKey |-> abiKey, text |-> text]
DescriptorObj == [abiKey |-> "", text |-> ""]

AbiTexts == {"[approve,name]", "[]", "{}", "not json", ""}

ResultValues ==
    {ResNone, ResStr(""), ResList(<<>>), ResDict("", <<>>),
     ResList(<<DescriptorObj, DescriptorObj>>), ResDict("other", <<DescriptorObj>>),
     ResDict("contractInfo", <<>>)}
    \cup {ResStr(t) : t \in AbiTexts \ {""}}
    \cup {ResList(<<InfoObj(k, t)>>) : k \in {"ABI", "abi"}, t \in AbiTexts}
    \cup {ResDict(k, <<InfoObj(a, t)>>) :
             k \in {"contractInfo", "ContractInfo"}, a \in {"ABI", "Abi"}, t \in AbiTexts}

\* the decoded body: status, message and result
Bodies == {[status |-> st, message |-> m, result |-> r] :
             st \in {"1", "0"}, m \in {"", "NOTOK"}, r \in ResultValues}

ErrMissing == "Etherscan v2: missing 'result'"
ErrEmptyAbi == "Etherscan v2: empty ABI field in response"
ErrNotList == "Etherscan v2: parsed ABI is not a list"
ErrInterpret == "Could not interpret Etherscan v2 response"
ErrType == "TypeError: the JSON object must be str, bytes or bytearray, not NoneType"

\* "if not res": None, "", [] and {} are false
Falsy(res) ==
    \/ res.t = "none"
    \/ res.t = "str" /\ res.text = ""
    \/ res.t = "list" /\ res.items = <<>>
    \/ res.t = "dict" /\ res.infoKey = ""

Returned(abi) == [ok |-> TRUE, abi |-> abi, err |-> ""]
RaisedErr(err) == [ok |-> FALSE, abi |-> AbiArgNone, err |-> err]

\* json.loads(abi_str) followed by the isinstance(abi, list) check
LoadsList(text) ==
    LET v == JsonLoads(text) IN
    IF v.t = "error" THEN RaisedErr(ErrJson)
    ELSE IF v.t # "list" THEN RaisedErr(ErrNotList)
    ELSE Returned(v)

\* lines 140-145: the registry's own error if it reported one, else the
\* parse error
Uninterpreted(data) ==
    IF data.status = "0" /\ data.message # "" THEN RaisedErr(ErrFetch)
    ELSE RaisedErr(ErrInterpret)

\* whatever the text of a result decodes to is returned
ParseV2Result_AnyJson(data) ==
    LET res == data.result IN
    IF res.t = "str" /\ JsonLoads(res.text).t # "error" THEN Returned(JsonLoads(res.text))
    ELSE RaisedErr(ErrInterpret)

\* abi_service._parse_v2_result lines 107-145
ParseV2Result(data) ==
    LET res == data.result IN
    IF Falsy(res) THEN RaisedErr(ErrMissing)
    ELSE IF res.t = "dict" /\ res.infoKey \in {"contractInfo", "ContractInfo"}
                          /\ res.items # <<>>
    THEN IF res.items[1].abiKey = "" \/ res.items[1].text = ""
         THEN RaisedErr(ErrEmptyAbi)
         ELSE LoadsList(res.items[1].text)
    ELSE IF res.t = "list" /\ res.items[1].abiKey # ""
    THEN IF res.items[1].text = "" THEN RaisedErr(ErrType)
         ELSE LoadsList(res.items[1].text)
    ELSE IF res.t = "str" /\ JsonLoads(res.text).t = "list"
    THEN Returned(JsonLoads(res.text))
    ELSE Uninterpreted(data)

\* fetch_abi_from_etherscan lines 166-178 for a body the registry sent:
\* _norm_addr, the status check, the parse
FetchFromEtherscan(address, data) ==
    IF NormAddr(address) = Invalid THEN RaisedErr(ErrAddr)
    ELSE IF data.status = "0" THEN RaisedErr(ErrFetch)
    ELSE ParseV2Result(data)

FetchCall(address, data) ==
    /\ last.op = "none"
    /\ last' = [op |-> "fetch", address |-> address, data |-> data,
                res |-> FetchFromEtherscan(address, data)]
    /\ UNCHANGED <<jobs, audits, abis, queue, wk, clock, web, txs>>

\* a direct call of the parser, as fetch makes it and for any other body
ParseCall(data) ==
    /\ last.op = "none"
    /\ last' = [op |-> "parse", address |-> "", data |-> data, res |-> ParseV2Result(data)]
    /\ UNCHANGED <<jobs, audits, abis, queue, wk, clock, web, txs>>

NextParse ==
    \/ \E a \in {"0xAB", "zz"}, d \in Bodies : FetchCall(a, d)
    \/ \E d \in Bodies : ParseCall(d)

SpecParse == Init /\ [][NextParse]_vars

\* the texts that encode a definition, and the definition each encodes
EncodedList(text) ==
    CASE text = "[approve,name]" -> Some(AbiToken)
      [] text = "[]" -> Some(AbiEmpty)
      [] OTHER -> Null

\* the definition a result carries under one of the three shapes (a list of
\* registry objects, one registry object, an encoded text), Null when it
\* matches none of them
Carried(res) ==
    IF res.t = "str" THEN EncodedList(res.text)
    ELSE IF res.t = "list" /\ res.items # <<>>
    THEN (IF res.items[1].abiKey # "" THEN EncodedList(res.items[1].text) ELSE Null)
    ELSE IF res.t = "dict" /\ res.infoKey \in {"contractInfo", "ContractInfo"}
                          /\ res.items # <<>>
    THEN (IF res.items[1].abiKey # "" THEN EncodedList(res.items[1].text) ELSE Null)
    ELSE Null

----------------------------------------------------------------------------
(* Claims about the extractor, under SpecScore *)

\* C33: the extractor counts the entries of type function only; a function
\* is a view when it declares view or pure and a write otherwise, so
\* total_functions = write_functions + view_functions, and write_ratio is
\* write_functions / max(total_functions, 1): 0 without functions, and
\* within [0, 1].
C33_FunctionCounts ==
    last.op = "extract" =>
       LET abi == last.abi
           f == last.feats
           fns == {i \in DOMAIN abi : abi[i].type = "function"}
           views == {i \in fns : abi[i].stateMutability = "view"
                                   \/ abi[i].stateMutability = "pure"}
           writes == {i \in fns : abi[i].stateMutability # "view"
                                    /\ abi[i].stateMutability # "pure"}
       IN  /\ f.total_functions = Cardinality(fns)
           /\ f.view_functions = Cardinality(views)
           /\ f.write_functions = Cardinality(writes)
           /\ f.total_functions = f.write_functions + f.view_functions
           /\ f.write_ratio[1] = f.write_functions
           /\ f.write_ratio[2] = (IF f.total_functions > 1 THEN f.total_functions ELSE 1)
           /\ 0 <= f.write_ratio[1] /\ f.write_ratio[1] <= f.write_ratio[2]
           /\ f.total_functions = 0 => f.write_ratio[1] = 0

\* a function without declared mutability was counted as a write, next to
\* an event that was not counted
C33_Witness ==
    /\ last.op = "extract"
    /\ last.abi = AbiVault
    /\ last.feats.total_functions = 4
    /\ last.feats.write_ratio = <<2, 4>>

\* the trigger names of each flag
Triggers ==
    [has_approve |-> {"approve"},
     has_transferFrom |-> {"transferFrom"},
     has_mint |-> {"mint", "mintTo"},
     has_burn |-> {"burn"},
     has_pause |-> {"pause", "paused"},
     has_owner |-> {"owner", "getOwner"},
     has_transferOwnership |-> {"transferOwnership"},
     has_withdraw |-> {"withdraw"}]

\* C34: each of the eight flags is true exactly when one of its trigger
\* names is the name of a function of the interface, and risky_flags is the
\* number of true flags, between 0 and 8.
C34_RiskFlags ==
    last.op = "extract" =>
       LET abi == last.abi
           f == last.feats
       IN  /\ Cardinality(DOMAIN Triggers) = 8
           /\ \A flag \in DOMAIN Triggers :
                 f[flag] = (\E i \in DOMAIN abi :
                               abi[i].type = "function" /\ abi[i].name \in Triggers[flag])
           /\ f.risky_flags = Cardinality({flag \in DOMAIN Triggers : f[flag]})
           /\ f.risky_flags \in 0..8

\* the second trigger names set their flags
C34_Witness ==
    /\ last.op = "extract"
    /\ last.abi = AbiFlags
    /\ last.feats.has_mint /\ last.feats.has_pause /\ last.feats.has_owner
    /\ last.feats.risky_flags = 5

----------------------------------------------------------------------------
(* The scoring of run_audit (specification SpecAudits): executions of      *)
(* lines 142-150 in one worker process, which loads the estimator at its   *)
(* first risk_score call and keeps it.  last records the estimator and the *)
(* executions so far.                                                      *)

RECURSIVE Gcd(_, _)
Gcd(a, b) == IF b = 0 THEN a ELSE Gcd(b, a % b)

\* float(n / d): equal quotients are the same float, whatever the counts
Quotient(n, d) == [kind |-> "num", v |-> <<n \div Gcd(n, d), d \div Gcd(n, d)>>]

\* the estimator is given the number of functions and the length of the code
IaInput_Sizes(feats) ==
    [feature1 |-> Some(Quotient(feats.total_functions, 1)),
     feature2 |-> Some(Num(feats.code_len))]

\* lines 144-147: the two columns handed to risk_score
IaInput(feats) ==
    [feature1 |-> Some(Quotient(feats.write_ratio[1], feats.write_ratio[2])),
     feature2 |-> Some(Num(feats.risky_flags))]

\* a fitted estimator is a fixed function of the two columns; its answers
\* are in tenths within [-1, 0).  Two estimators stand for the file of
\* AI_MODEL_PATH and the default one
Estimators == {[base |-> 1, ratio |-> 4, flags |-> 1], [base |-> 9, ratio |-> -6, flags |-> 0]}

Clamp(x) == IF x < 1 THEN 1 ELSE IF x > 10 THEN 10 ELSE x

\* model.score_samples(X)[0] of estimator e for the columns of ia
EstimatorOutput(e, ia) ==
    LET q == Val(ia.feature1).v IN
    -Clamp(e.base + (e.ratio * q[1]) \div q[2] + e.flags * Val(ia.feature2).v)

\* lines 142-150: the features, the input of the estimator, the score and
\* the level
AuditScore(abi, probe, e) ==
    LET feats == ExtractFeatures(abi, probe)
        ia == RiskScore(IaInput(feats), EstimatorOutput(e, IaInput(feats)))
    IN  [abi |-> abi, feats |-> feats, ia |-> ia, ai_score |-> ia.risk_score,
         risk_level |-> LevelFromScore(ia.risk_score)]

PairProbes == {[code_len |-> n, failing |-> f] : n \in {0, 120}, f \in {{}, {"name"}}}

ScoreAudit(abi, probe, e) ==
    LET runs == IF last.op = "none" THEN <<>> ELSE last.runs
        estimator == IF last.op = "none" THEN e ELSE last.estimator
    IN
    /\ last.op \in {"none", "scored"}
    /\ Len(runs) < MaxCalls
    /\ last' = [op |-> "scored", estimator |-> estimator,
                runs |-> Append(runs, AuditScore(abi, probe, estimator))]
    /\ UNCHANGED <<jobs, audits, abis, queue, wk, clock, web, txs>>

NextAudits ==
    \E abi \in ExtractAbis, probe \in PairProbes, e \in Estimators : ScoreAudit(abi, probe, e)

SpecAudits == Init /\ [][NextAudits]_vars

\* two feature vectors have the same write ratio and the same flag count
SameInputs(f, g) ==
    /\ f.write_ratio[1] * g.write_ratio[2] = g.write_ratio[1] * f.write_ratio[2]
    /\ f.risky_flags = g.risky_flags

\* C35: two executions whose features agree on write_ratio and risky_flags
\* obtain the same ai_score and the same risk_level, whatever their other
\* features are.
C35_ScoreDependsOnTwoFeatures ==
    last.op = "scored" =>
       \A i, j \in DOMAIN last.runs :
           SameInputs(last.runs[i].feats, last.runs[j].feats) =>
              /\ last.runs[i].ai_score = last.runs[j].ai_score
              /\ last.runs[i].risk_level = last.runs[j].risk_level

\* two executions with the same ratio and flag count and different function
\* counts, code lengths and metadata
C35_Witness ==
    /\ last.op = "scored"
    /\ Len(last.runs) = 2
    /\ last.runs[1].abi = AbiToken /\ last.runs[2].abi = AbiToken2
    /\ SameInputs(last.runs[1].feats, last.runs[2].feats)
    /\ last.runs[1].feats.code_len # last.runs[2].feats.code_len
    /\ DOMAIN last.runs[1].feats # DOMAIN last.runs[2].feats
    /\ last.runs[1].ai_score = last.runs[2].ai_score

====
